---- MODULE Spec2Model ----
(***************************************************************************)
(* State-machine model of the Azure DevOps MCP tool handlers.              *)
(*                                                                         *)
(* One tool invocation is in progress at a time.  Every await of a handler *)
(* is one step; the backend calls issued so far are kept, in order, in     *)
(* `calls`.  The backend is an unchanging world for the length of one      *)
(* invocation (`world`), apart from the outcomes that are only observed    *)
(* once, which are chosen when the call is made.                           *)
(*                                                                         *)
(* Texts are sequences of tokens.  A literal that opens a text is split    *)
(* into its words and punctuation ("Error", ":"), so that "begins with"    *)
(* is a prefix test on tokens; interpolated values are one token each.     *)
(***************************************************************************)
EXTENDS Integers, Sequences, FiniteSets, TLC

VARIABLES
  config,      \* AzureDevOpsConfig: defaultProject, defaultRepository
  connection,  \* TRUE iff the azdev.WebApi connection is not null
  tool,        \* name of the tool being invoked
  args,        \* the argument bag of the invocation
  world,       \* the backend's content during the invocation
  pc,          \* position of the handler
  loc,         \* the handler's local variables
  calls,       \* backend calls issued by the invocation, in order
  response     \* what the handler returned or threw

vars == <<config, connection, tool, args, world, pc, loc, calls, response>>

----------------------------------------------------------------------------
(* Bounds *)

MaxRepos == 2
MaxThreads == 1
MaxRefs == 1
MaxChanges == 4
MaxRuns == 6
MaxYamlLines == 3
MaxRelations == 2

----------------------------------------------------------------------------
(* JavaScript values *)

None == "<undefined>"

Falsy(x) == x = None \/ x = ""

Or(a, b) == IF Falsy(a) THEN b ELSE a

\* a possibly null object is <<>> (null or undefined) or <<object>>
Null == <<>>
Obj(v) == <<v>>
IsNull(o) == o = <<>>

ToLowerCase(s) ==
  CASE s = "Web" -> "web"
    [] s = "WEB" -> "web"
    [] OTHER -> s

SeqsUpTo(S, n) == UNION { [1..k -> S] : k \in 0..n }

HasPrefix(text, prefix) ==
  /\ Len(text) >= Len(prefix)
  /\ \A i \in 1..Len(prefix) : text[i] = prefix[i]

Contains(text, tok) == \E i \in 1..Len(text) : text[i] = tok

----------------------------------------------------------------------------
(* Configuration and argument values *)

DefaultProjects == {None, "ProjB"}
DefaultRepositories == {None, "id1", "Web", "ghost"}
ProjectArgs == {None, "", "ProjA"}
PullRequestIds == {7}
RepositoryArgs == {None, "", "id2", "WEB", "nope"}

----------------------------------------------------------------------------
(* The backend *)

AllRepos ==
  { [id |-> "id1", name |-> "Web"],
    [id |-> "id2", name |-> "api"],
    [id |-> "id3", name |-> None] }

Listings ==
  { s \in SeqsUpTo(AllRepos, MaxRepos) :
      \A i, j \in 1..Len(s) : i # j => s[i].id # s[j].id }

ThrowKinds == {"NotFound", "Invalid", "Unauthorized", "Transport"}
LookupFailures == {"NotFound", "Invalid"}
AccessFailures == {"Unauthorized", "Transport"}

Throw(kind) == [throws |-> kind]
Value(v) == [value |-> v]
IsThrow(o) == "throws" \in DOMAIN o

\* what a repository holds for the requested pull-request ID
PrContents == {"match", "matchNoRepo", "null", "NotFound", "Unauthorized"}
PrMisses == {"null", "NotFound", "Unauthorized"}

\* the repository an identifier (ID or name) denotes for the backend
BackendRepo(listing, ident) ==
  LET hits == { i \in 1..Len(listing) :
                  \/ listing[i].id = ident
                  \/ /\ listing[i].name # None
                     /\ ToLowerCase(listing[i].name) = ToLowerCase(ident) }
  IN IF hits = {} THEN Null
     ELSE Obj(listing[CHOOSE i \in hits : \A j \in hits : i <= j])

PullRequestOf(repo, content, prId) ==
  CASE content = "match" ->
         Value(Obj([pullRequestId |-> prId, title |-> "T",
                    repository |-> Obj([id |-> repo.id, name |-> repo.name])]))
    [] content = "matchNoRepo" ->
         Value(Obj([pullRequestId |-> prId, title |-> "T", repository |-> Null]))
    [] content = "null" -> Value(Null)
    [] OTHER -> Throw(content)

\* gitApi.getPullRequest(repositoryId, pullRequestId, project)
BackendGetPullRequest(w, ident, prId) ==
  LET repo == BackendRepo(w.repositories, ident)
  IN IF IsNull(repo)
     THEN (IF w.miss = "null" THEN Value(Null) ELSE Throw(w.miss))
     ELSE PullRequestOf(repo[1], w.prAt[repo[1].id], prId)

PrWorlds ==
  UNION { { [repositories |-> l, prAt |-> f, miss |-> m] :
              f \in [{ l[i].id : i \in 1..Len(l) } -> PrContents],
              m \in PrMisses } : l \in Listings }

NoWorld == [repositories |-> <<>>]
NoArgs == [project |-> None]
NoResponse == [kind |-> "none", failed |-> FALSE, text |-> <<>>]

\* how a call ended: "ok" (an object), "null", or the kind of error it threw
OutcomeOf(o) == IF IsThrow(o) THEN o.throws ELSE IF IsNull(o.value) THEN "null" ELSE "ok"

\* an entry of the log of backend calls: the operation, the identifiers the
\* request carried, and how the call ended
Call(op, project, repo, extra, outcome) ==
  [op |-> op, project |-> project, repo |-> repo, extra |-> extra,
   outcome |-> outcome]

----------------------------------------------------------------------------
(* Responses *)

\* `failed` marks the responses built on an error path of the handler
Returned(text) == [kind |-> "return", failed |-> FALSE, text |-> text]
Failed(text) == [kind |-> "return", failed |-> TRUE, text |-> text]
Thrown(text) == [kind |-> "throw", failed |-> TRUE, text |-> text]

\* error instanceof Error ? error.message : String(error)
ErrorMessage(e) == <<e>>

MsgNoConnection == <<"No connection to Azure DevOps">>
MsgNoProject == <<"No project specified and no default project configured">>

\* if (!project) of the handlers' preambles
MissingProjectNever(project) == FALSE

MissingProject(project) == Falsy(project)

\* if (!repositoryId) of the handlers' preambles
MissingRepository(repositoryId) == Falsy(repositoryId)

LocInit ==
  [project |-> None, repositoryId |-> None, pullRequest |-> Null,
   repositories |-> <<>>, i |-> 0, repository |-> Null,
   threads |-> <<>>, changeEntries |-> <<>>,
   groups |-> [additions |-> <<>>, edits |-> <<>>, deletes |-> <<>>,
               renames |-> <<>>],
   pipeline |-> Null, text |-> <<>>, yamlContent |-> Null,
   yamlParameters |-> <<>>,
   workItem |-> Null, parentItems |-> <<>>, childItems |-> <<>>,
   parentWorkItem |-> Null, relatedWorkItem |-> Null]

Finish(resp) ==
  /\ pc' = "done"
  /\ response' = resp

----------------------------------------------------------------------------
(* get_pull_request *)

MsgNoDefaultRepository ==
  <<"No default repository configured. Please set AZURE_DEVOPS_DEFAULT_REPOSITORY in your .env file">>

GprCaught(msg) == Failed(<<"Error", "getting", "pull", "request", ":">> \o msg)

GprInvoke ==
  /\ pc = "idle"
  /\ \E a \in [pullRequestId : PullRequestIds, project : ProjectArgs] :
       LET project == Or(a.project, config.defaultProject)
           repositoryId == config.defaultRepository
           failed == ~connection \/ MissingProject(project)
                     \/ MissingRepository(repositoryId)
       IN /\ tool' = "get_pull_request"
          /\ args' = a
          /\ calls' = <<>>
          /\ IF failed
             THEN /\ world' = NoWorld
                  /\ loc' = LocInit
                  /\ Finish(GprCaught(
                       IF ~connection THEN MsgNoConnection
                       ELSE IF MissingProject(project) THEN MsgNoProject
                       ELSE MsgNoDefaultRepository))
             ELSE /\ \E w \in PrWorlds : world' = w
                  /\ loc' = [LocInit EXCEPT !.project = project,
                                            !.repositoryId = repositoryId]
                  /\ pc' = "gpr_getGitApi"
                  /\ response' = NoResponse
  /\ UNCHANGED <<config, connection>>

\* a comment thread of a pull request
ThreadUniverse ==
  { [comments |-> <<>>, status |-> 0],
    [comments |-> <<[commentType |-> 1, content |-> "looks good"]>>, status |-> 1],
    [comments |-> <<[commentType |-> 2, content |-> ""]>>, status |-> 0],
    [comments |-> <<[commentType |-> 3, content |-> "policy updated"]>>, status |-> 4] }

ThreadLists == SeqsUpTo(ThreadUniverse, MaxThreads)

RECURSIVE FlatMap(_, _)
FlatMap(F(_), s) == IF s = <<>> THEN <<>> ELSE F(Head(s)) \o FlatMap(F, Tail(s))

RenderComment(comment) ==
  <<"**author**", IF Falsy(comment.content) THEN "No content" ELSE comment.content>>

RenderThread(thread) ==
  IF Len(thread.comments) = 0 THEN <<>>
  ELSE IF thread.comments[1].commentType = 1 THEN <<>>
  ELSE <<"### General">> \o FlatMap(RenderComment, thread.comments)
       \o (IF thread.status # 0 THEN <<"*Status*">> ELSE <<>>) \o <<"---">>

FormatPullRequest(pr, threads) ==
  <<"# Pull Request #", ToString(pr.pullRequestId), ": ", pr.title, "**Repository**: ",
    IF IsNull(pr.repository) \/ Falsy(pr.repository[1].name)
    THEN "Unknown" ELSE pr.repository[1].name>>
  \o (IF Len(threads) > 0
      THEN <<"## Comments">> \o FlatMap(RenderThread, threads)
      ELSE <<>>)

\* the steps after `pullRequest` has been assigned (lines 122-153)
GprResolved(pr) ==
  IF IsNull(pr)
  THEN /\ Finish(Returned(<<"Pull request #", ToString(args.pullRequestId),
                            " not found.">>))
       /\ loc' = loc
  ELSE IF ~IsNull(pr[1].repository) /\ ~Falsy(pr[1].repository[1].id)
  THEN /\ pc' = "gpr_threads"
       /\ loc' = [loc EXCEPT !.pullRequest = pr]
       /\ response' = response
  ELSE /\ Finish(Returned(FormatPullRequest(pr[1], <<>>)))
       /\ loc' = [loc EXCEPT !.pullRequest = pr]

GprGetGitApi ==
  /\ pc = "gpr_getGitApi"
  /\ \/ /\ calls' = Append(calls, Call("getGitApi", None, None, None, "ok"))
        /\ pc' = "gpr_direct"
        /\ response' = response
     \/ \E e \in AccessFailures :
          /\ calls' = Append(calls, Call("getGitApi", None, None, None, e))
          /\ Finish(GprCaught(ErrorMessage(e)))
  /\ UNCHANGED <<config, connection, tool, args, world, loc>>

GprDirect ==
  /\ pc = "gpr_direct"
  /\ LET o == BackendGetPullRequest(world, loc.repositoryId, args.pullRequestId)
     IN /\ calls' = Append(calls, Call("getPullRequest", loc.project,
                                       loc.repositoryId, args.pullRequestId,
                                       OutcomeOf(o)))
        /\ IF IsThrow(o)
           THEN /\ pc' = "gpr_list"
                /\ UNCHANGED <<loc, response>>
           ELSE GprResolved(o.value)
  /\ UNCHANGED <<config, connection, tool, args, world>>

GprList ==
  /\ pc = "gpr_list"
  /\ \/ /\ calls' = Append(calls, Call("getRepositories", loc.project, None, None, "ok"))
        /\ pc' = "gpr_scan"
        /\ loc' = [loc EXCEPT !.repositories = world.repositories, !.i = 1]
        /\ response' = response
     \/ \E e \in AccessFailures :
          /\ calls' = Append(calls, Call("getRepositories", loc.project, None, None, e))
          /\ Finish(GprCaught(ErrorMessage(e)))
          /\ loc' = loc
  /\ UNCHANGED <<config, connection, tool, args, world>>

\* the repository visited by the i-th iteration of `for (const repo of repositories)`
ScanRepoLastFirst(repositories, i) == repositories[Len(repositories) + 1 - i]

ScanRepo(repositories, i) == repositories[i]

\* pr && pr.pullRequestId === args.pullRequestId
IsRequestedPr(o, prId) ==
  /\ ~IsThrow(o)
  /\ ~IsNull(o.value)
  /\ o.value[1].pullRequestId = prId

\* one iteration of the loop over the repositories, or the loop's exit
GprScan ==
  /\ pc = "gpr_scan"
  /\ IF loc.i > Len(loc.repositories)
     THEN /\ Finish(GprCaught(<<"Pull request #", ToString(args.pullRequestId),
                                " not found in project ", loc.project>>))
          /\ UNCHANGED <<loc, calls>>
     ELSE LET repo == ScanRepo(loc.repositories, loc.i)
          IN IF repo.id = loc.repositoryId
             THEN /\ loc' = [loc EXCEPT !.i = loc.i + 1]
                  /\ UNCHANGED <<pc, calls, response>>
             ELSE LET o == BackendGetPullRequest(world, repo.id, args.pullRequestId)
                  IN /\ calls' = Append(calls, Call("getPullRequest", loc.project,
                                                    repo.id, args.pullRequestId,
                                                    OutcomeOf(o)))
                     /\ IF IsRequestedPr(o, args.pullRequestId)
                        THEN GprResolved(o.value)
                        ELSE /\ loc' = [loc EXCEPT !.i = loc.i + 1]
                             /\ UNCHANGED <<pc, response>>
  /\ UNCHANGED <<config, connection, tool, args, world>>

ThreadsRepositoryDefault(pr) == loc.repositoryId

\* the repository of the thread fetch: pullRequest.repository.id (line 145)
ThreadsRepository(pr) == pr.repository[1].id

GprThreads ==
  /\ pc = "gpr_threads"
  /\ LET call(outcome) == Call("getThreads", loc.project,
                                ThreadsRepository(loc.pullRequest[1]),
                                loc.pullRequest[1].pullRequestId, outcome)
     IN \/ \E threads \in ThreadLists :
             /\ calls' = Append(calls, call("ok"))
             /\ loc' = [loc EXCEPT !.threads = threads]
             /\ Finish(Returned(FormatPullRequest(loc.pullRequest[1], threads)))
        \/ \E e \in AccessFailures :
             /\ calls' = Append(calls, call(e))
             /\ loc' = loc
             /\ Finish(Returned(FormatPullRequest(loc.pullRequest[1], <<>>)))
  /\ UNCHANGED <<config, connection, tool, args, world>>

----------------------------------------------------------------------------
(* get_repository *)

MsgNoRepository == <<"No repository specified and no default repository configured">>

\* reading a property of null or undefined
MsgTypeError == <<"TypeError: Cannot read properties of undefined">>

GrCaught(msg) == Failed(<<"Error", "retrieving", "repository", ":">> \o msg)

\* gitApi.getRepository(repositoryId, project)
BackendGetRepository(listing, ident) ==
  { Value(BackendRepo(listing, ident)) } \cup { Throw(e) : e \in ThrowKinds }

RefNames == {"refs/heads/main", "refs/tags/v1"}
RefLists == SeqsUpTo(RefNames, MaxRefs)

\* ref.name?.startsWith('refs/heads/')
StartsWithRefsHeads(name) == name = "refs/heads/main"

\* ref.name?.replace('refs/heads/', '')
BranchName(name) == IF name = "refs/heads/main" THEN "main" ELSE name

RECURSIVE Branches(_)
Branches(refs) ==
  IF refs = <<>> THEN <<>>
  ELSE (IF StartsWithRefsHeads(Head(refs)) THEN <<BranchName(Head(refs))>> ELSE <<>>)
       \o Branches(Tail(refs))

\* repositories.find(repo => repo.name?.toLowerCase() === repositoryId.toLowerCase())
FindByName(repositories, repositoryId) ==
  LET hits == { i \in 1..Len(repositories) :
                  /\ repositories[i].name # None
                  /\ ToLowerCase(repositories[i].name) = ToLowerCase(repositoryId) }
  IN IF hits = {} THEN Null
     ELSE Obj(repositories[CHOOSE i \in hits : \A j \in hits : i <= j])

FormatRepository(repository, refs) ==
  <<"Repository details for '", repository.name, "':", "id", repository.id,
    "branches">> \o Branches(refs)

GrInvoke ==
  /\ pc = "idle"
  /\ \E a \in [repositoryId : RepositoryArgs, project : ProjectArgs] :
       LET project == Or(a.project, config.defaultProject)
           repositoryId == Or(a.repositoryId, config.defaultRepository)
           failed == ~connection \/ MissingProject(project)
                     \/ MissingRepository(repositoryId)
       IN /\ tool' = "get_repository"
          /\ args' = a
          /\ calls' = <<>>
          /\ IF failed
             THEN /\ world' = NoWorld
                  /\ loc' = LocInit
                  /\ Finish(GrCaught(
                       IF ~connection THEN MsgNoConnection
                       ELSE IF MissingProject(project) THEN MsgNoProject
                       ELSE MsgNoRepository))
             ELSE /\ \E l \in Listings : world' = [repositories |-> l]
                  /\ loc' = [LocInit EXCEPT !.project = project,
                                            !.repositoryId = repositoryId]
                  /\ pc' = "gr_getGitApi"
                  /\ response' = NoResponse
  /\ UNCHANGED <<config, connection>>

GrGetGitApi ==
  /\ pc = "gr_getGitApi"
  /\ \/ /\ calls' = Append(calls, Call("getGitApi", None, None, None, "ok"))
        /\ pc' = "gr_direct"
        /\ response' = response
     \/ \E e \in AccessFailures :
          /\ calls' = Append(calls, Call("getGitApi", None, None, None, e))
          /\ Finish(GrCaught(ErrorMessage(e)))
  /\ UNCHANGED <<config, connection, tool, args, world, loc>>

\* the steps after `repository` has been assigned (lines 87-89)
GrResolved(repository) ==
  IF IsNull(repository)
  THEN /\ Finish(GrCaught(MsgTypeError))
       /\ loc' = loc
  ELSE /\ pc' = "gr_refs"
       /\ loc' = [loc EXCEPT !.repository = repository]
       /\ response' = response

GrDirect ==
  /\ pc = "gr_direct"
  /\ \E o \in BackendGetRepository(world.repositories, loc.repositoryId) :
       /\ calls' = Append(calls, Call("getRepository", loc.project,
                                      loc.repositoryId, None, OutcomeOf(o)))
       /\ IF IsThrow(o)
          THEN /\ pc' = "gr_list"
               /\ UNCHANGED <<loc, response>>
          ELSE GrResolved(o.value)
  /\ UNCHANGED <<config, connection, tool, args, world>>

GrList ==
  /\ pc = "gr_list"
  /\ \/ /\ calls' = Append(calls, Call("getRepositories", loc.project, None, None, "ok"))
        /\ LET repository == FindByName(world.repositories, loc.repositoryId)
           IN IF IsNull(repository)
              THEN /\ Finish(GrCaught(<<"Repository '", loc.repositoryId,
                                        "' not found", " in project '", loc.project, "'">>))
                   /\ loc' = [loc EXCEPT !.repositories = world.repositories]
              ELSE /\ pc' = "gr_refs"
                   /\ loc' = [loc EXCEPT !.repositories = world.repositories,
                                         !.repository = repository]
                   /\ response' = response
     \/ \E e \in AccessFailures :
          /\ calls' = Append(calls, Call("getRepositories", loc.project, None, None, e))
          /\ Finish(GrCaught(ErrorMessage(e)))
          /\ loc' = loc
  /\ UNCHANGED <<config, connection, tool, args, world>>

GrRefs ==
  /\ pc = "gr_refs"
  /\ LET call(outcome) == Call("getRefs", None, Or(loc.repository[1].id, ""),
                                None, outcome)
     IN \/ \E refs \in RefLists :
             /\ calls' = Append(calls, call("ok"))
             /\ Finish(Returned(FormatRepository(loc.repository[1], refs)))
        \/ \E e \in AccessFailures :
             /\ calls' = Append(calls, call(e))
             /\ Finish(GrCaught(ErrorMessage(e)))
  /\ UNCHANGED <<config, connection, tool, args, world, loc>>

----------------------------------------------------------------------------
(* get_pull_requests *)

DefaultLimit == 10

\* args.limit: 0 stands for an absent limit, which `args.limit || 10` treats alike
LimitArgs == {0, 1}
StatusArgs == {None, "completed", "all"}

GprsCaught(msg) == Failed(<<"Error", "getting", "pull", "requests", ":">> \o msg)

\* args.repositoryId || config.defaultRepository || ''
GprsRepositoryId(a, cfg) == Or(Or(a.repositoryId, cfg.defaultRepository), "")

\* the status filter of the search criteria
StatusFilter(status) ==
  CASE status = None -> "Active"
    [] status = "active" -> "Active"
    [] status = "abandoned" -> "Abandoned"
    [] status = "completed" -> "Completed"
    [] OTHER -> None

PullRequestUniverse ==
  { [pullRequestId |-> 7, title |-> "T", status |-> 1, description |-> "",
     repository |-> Obj([id |-> "id1", name |-> "Web"])],
    [pullRequestId |-> 8, title |-> "U", status |-> 3, description |-> "why",
     repository |-> Null] }

PullRequestLists(top) ==
  { s \in SeqsUpTo(PullRequestUniverse, MaxRepos) : Len(s) <= top }

StatusText(status) ==
  CASE status = 1 -> "Active"
    [] status = 2 -> "Abandoned"
    [] status = 3 -> "Completed"
    [] OTHER -> "Unknown"

FormatListedPr(pr) ==
  <<"## PR #", ToString(pr.pullRequestId), pr.title, "**Status**: ",
    StatusText(pr.status), "**Repository**: ",
    IF IsNull(pr.repository) \/ Falsy(pr.repository[1].name)
    THEN "Unknown" ELSE pr.repository[1].name>>
  \o (IF Falsy(pr.description) THEN <<>> ELSE <<"**Description**:", pr.description>>)
  \o <<"---">>

FormatPullRequests(prs) == <<"# Pull Requests">> \o FlatMap(FormatListedPr, prs)

GprsInvoke ==
  /\ pc = "idle"
  /\ \E a \in [repositoryId : RepositoryArgs, project : ProjectArgs,
               status : StatusArgs, limit : LimitArgs] :
       LET project == Or(a.project, config.defaultProject)
           failed == ~connection \/ MissingProject(project)
       IN /\ tool' = "get_pull_requests"
          /\ args' = a
          /\ calls' = <<>>
          /\ world' = NoWorld
          /\ IF failed
             THEN /\ loc' = LocInit
                  /\ Finish(GprsCaught(
                       IF ~connection THEN MsgNoConnection ELSE MsgNoProject))
             ELSE /\ loc' = [LocInit EXCEPT !.project = project,
                                            !.repositoryId = GprsRepositoryId(a, config)]
                  /\ pc' = "gprs_getGitApi"
                  /\ response' = NoResponse
  /\ UNCHANGED <<config, connection>>

GprsGetGitApi ==
  /\ pc = "gprs_getGitApi"
  /\ \/ /\ calls' = Append(calls, Call("getGitApi", None, None, None, "ok"))
        /\ pc' = "gprs_getPullRequests"
        /\ response' = response
     \/ \E e \in AccessFailures :
          /\ calls' = Append(calls, Call("getGitApi", None, None, None, e))
          /\ Finish(GprsCaught(ErrorMessage(e)))
  /\ UNCHANGED <<config, connection, tool, args, world, loc>>

\* gitApi.getPullRequests(repositoryId, searchCriteria, project, _, _, top):
\* the call's `extra` is the repository the search criteria carry
GprsGetPullRequests ==
  /\ pc = "gprs_getPullRequests"
  /\ LET top == IF args.limit = 0 THEN DefaultLimit ELSE args.limit
         call(outcome) == Call("getPullRequests", loc.project, loc.repositoryId,
                               [repositoryId |-> args.repositoryId,
                                status |-> StatusFilter(args.status),
                                top |-> top], outcome)
     IN \/ \E prs \in PullRequestLists(top) :
             /\ calls' = Append(calls, call("ok"))
             /\ Finish(Returned(IF Len(prs) = 0
                                THEN <<"No pull requests found matching the criteria.">>
                                ELSE FormatPullRequests(prs)))
        \/ /\ calls' = Append(calls, call("null"))
           /\ Finish(Returned(<<"No pull requests found matching the criteria.">>))
        \/ \E e \in ThrowKinds :
             /\ calls' = Append(calls, call(e))
             /\ Finish(GprsCaught(ErrorMessage(e)))
  /\ UNCHANGED <<config, connection, tool, args, world, loc>>

----------------------------------------------------------------------------
(* list_repositories *)

LrCaught(msg) == Failed(<<"Error", "listing", "repositories", ":">> \o msg)

\* args.project || config.defaultProject, with no check of the result
LrProject(a, cfg) == Or(a.project, cfg.defaultProject)

\* formattedRepositories.findIndex(repo => repo.id === d || repo.name === d)
DefaultRepoIndex(repositories, d) ==
  LET hits == { i \in 1..Len(repositories) :
                  repositories[i].id = d \/ repositories[i].name = d }
  IN IF hits = {} THEN 0 ELSE CHOOSE i \in hits : \A j \in hits : i <= j

FormatRepositories(repositories, project, d) ==
  LET idx == DefaultRepoIndex(repositories, d)
      row(i) == <<IF i = idx THEN "(Default)" ELSE "", repositories[i].name,
                  repositories[i].id>>
      RECURSIVE rows(_)
      rows(i) == IF i > Len(repositories) THEN <<>> ELSE row(i) \o rows(i + 1)
  IN (IF Falsy(project) THEN <<"# All repositories in the organization">>
      ELSE <<"# Repositories in project '", project, "'">>)
     \o (IF Falsy(d) THEN <<>>
         ELSE IF idx > 0 THEN <<"Default repository: **", repositories[idx].name>>
         ELSE <<"Note: Default repository '", d, "' configured in .env not found in the results.">>)
     \o <<"| Name | ID | Default Branch | Web URL |">> \o rows(1)

LrInvoke ==
  /\ pc = "idle"
  /\ \E a \in [project : ProjectArgs] :
       /\ tool' = "list_repositories"
       /\ args' = a
       /\ calls' = <<>>
       /\ world' = NoWorld
       /\ IF ~connection
          THEN /\ loc' = LocInit
               /\ Finish(LrCaught(MsgNoConnection))
          ELSE /\ loc' = [LocInit EXCEPT !.project = LrProject(a, config)]
               /\ pc' = "lr_getGitApi"
               /\ response' = NoResponse
  /\ UNCHANGED <<config, connection>>

LrGetGitApi ==
  /\ pc = "lr_getGitApi"
  /\ \/ /\ calls' = Append(calls, Call("getGitApi", None, None, None, "ok"))
        /\ pc' = "lr_getRepositories"
        /\ response' = response
     \/ \E e \in AccessFailures :
          /\ calls' = Append(calls, Call("getGitApi", None, None, None, e))
          /\ Finish(LrCaught(ErrorMessage(e)))
  /\ UNCHANGED <<config, connection, tool, args, world, loc>>

LrGetRepositories ==
  /\ pc = "lr_getRepositories"
  /\ LET call(outcome) == Call("getRepositories", loc.project, None, None, outcome)
         none == IF Falsy(loc.project)
                 THEN <<"No repositories found in this organization.">>
                 ELSE <<"No repositories found in project '", loc.project, "'.">>
     IN \/ \E l \in Listings :
             /\ calls' = Append(calls, call("ok"))
             /\ Finish(Returned(IF Len(l) = 0 THEN none
                                ELSE FormatRepositories(l, loc.project,
                                                        config.defaultRepository)))
        \/ /\ calls' = Append(calls, call("null"))
           /\ Finish(Returned(none))
        \/ \E e \in ThrowKinds :
             /\ calls' = Append(calls, call(e))
             /\ Finish(LrCaught(ErrorMessage(e)))
  /\ UNCHANGED <<config, connection, tool, args, world, loc>>

----------------------------------------------------------------------------
(* search_repository_code *)

DefaultMaxResults == 20

ServerUrls == {"https://dev.azure.com/org", "https://tfs.local", ""}
Pats == {None, "pat"}
FileExtensionArgs == {None, "ts", ".ts"}

SrcCaught(msg) == Failed(<<"Error", "searching", "code", ":">> \o msg)

\* orgUrl.match(/https:\/\/dev\.azure\.com\/([^/]+)/i)
Organization(orgUrl) == IF orgUrl = "https://dev.azure.com/org" THEN "org" ELSE None

\* args.fileExtension.startsWith('.') ? args.fileExtension : `.${args.fileExtension}`
Extension(ext) == IF Falsy(ext) THEN None ELSE IF ext = "ts" THEN ".ts" ELSE ext

\* x ? [x] : undefined
Filter(x) == IF Falsy(x) THEN None ELSE x

SrcProject(a, cfg) == Or(a.project, cfg.defaultProject)

SrcRepository(a, cfg) == Or(a.repository, cfg.defaultRepository)

SearchResultUniverse ==
  { [fileName |-> "a.ts", path |-> "/a.ts", repository |-> Obj([name |-> "Web",
     webUrl |-> "https://web"]), matches |-> 1],
    [fileName |-> "", path |-> "", repository |-> Null, matches |-> 0] }

SearchResponses ==
  { [count |-> Len(s), results |-> s] : s \in SeqsUpTo(SearchResultUniverse, 1) }

FormatSearchResult(result) ==
  <<"## ", result.fileName, "**Path**: ", result.path, "**Repository**: ",
    IF IsNull(result.repository) THEN "Unknown" ELSE result.repository[1].name>>
  \o (IF ~IsNull(result.repository) /\ ~Falsy(result.repository[1].webUrl)
      THEN <<"**Link**: ", result.repository[1].webUrl, "/blob/", "master", result.path>>
      ELSE <<>>)
  \o <<"### Matches", ToString(result.matches), "---">>

FormatSearchResults(results, searchText, repository, project) ==
  <<"# Code Search Results", "Found", ToString(results.count), searchText>>
  \o (IF Falsy(repository) THEN <<>> ELSE <<"Repository: **", repository>>)
  \o (IF Falsy(project) THEN <<>> ELSE <<"Project: **", project>>)
  \o FlatMap(FormatSearchResult, results.results)

SrcInvoke ==
  /\ pc = "idle"
  /\ \E a \in [searchText : {"foo"}, project : ProjectArgs,
               repository : RepositoryArgs, fileExtension : FileExtensionArgs,
               maxResults : LimitArgs],
        serverUrl \in ServerUrls, pat \in Pats :
       LET failed == \/ ~connection
                     \/ Falsy(serverUrl)
                     \/ Falsy(Organization(serverUrl))
                     \/ Falsy(pat)
       IN /\ tool' = "search_repository_code"
          /\ args' = a
          /\ calls' = <<>>
          /\ world' = NoWorld
          /\ IF failed
             THEN /\ loc' = LocInit
                  /\ Finish(SrcCaught(
                       IF ~connection THEN MsgNoConnection
                       ELSE IF Falsy(serverUrl)
                       THEN <<"Unable to determine organization URL">>
                       ELSE IF Falsy(Organization(serverUrl))
                       THEN <<"Unable to determine organization name from URL">>
                       ELSE <<"Unable to get authentication token. Please set AZURE_DEVOPS_PAT environment variable.">>))
             ELSE /\ loc' = [LocInit EXCEPT !.project = SrcProject(a, config),
                                            !.repositoryId = SrcRepository(a, config)]
                  /\ pc' = "src_fetch"
                  /\ response' = NoResponse
  /\ UNCHANGED <<config, connection>>

\* fetch(searchUrl, { method: 'POST', body: JSON.stringify(searchRequest) }):
\* the call's project is the project scope of the URL, its repo the
\* Repository filter and its `extra` the other filters of the request body
SrcFetch ==
  /\ pc = "src_fetch"
  /\ LET call(outcome) ==
           Call("fetch", Or(loc.project, ""), Filter(loc.repositoryId),
                [Project |-> Filter(loc.project),
                 Extension |-> Extension(args.fileExtension),
                 top |-> IF args.maxResults = 0 THEN DefaultMaxResults
                         ELSE args.maxResults], outcome)
     IN \/ \E r \in SearchResponses :
             /\ calls' = Append(calls, call("ok"))
             /\ Finish(Returned(IF r.count = 0 THEN <<"No results found.">>
                                ELSE FormatSearchResults(r, args.searchText,
                                                         loc.repositoryId, loc.project)))
        \/ /\ calls' = Append(calls, call("null"))
           /\ Finish(Returned(<<"No results found.">>))
        \/ /\ calls' = Append(calls, call("Unauthorized"))
           /\ Finish(SrcCaught(<<"Search API request failed: ", "401">>))
        \/ /\ calls' = Append(calls, call("Transport"))
           /\ Finish(SrcCaught(ErrorMessage("Transport")))
  /\ UNCHANGED <<config, connection, tool, args, world, loc>>

----------------------------------------------------------------------------
(* create_pull_request *)

SourceRefArgs == {"feature", "refs/heads/feature"}
WorkItemIdArgs == {<<>>, <<1>>}
ReviewerArgs == {<<>>, <<"rev">>}
CreatedPrIds == {9}

MsgNoRepositoryConfigured ==
  <<"No repository configured. Please set AZURE_DEVOPS_DEFAULT_REPOSITORY in your .env file">>

CprCaught(msg) == Failed(<<"Error", "creating", "pull", "request", ":">> \o msg)

\* name.startsWith('refs/heads/') ? name : `refs/heads/${name}`
FullRefName(name) ==
  CASE name = "feature" -> "refs/heads/feature"
    [] name = "main" -> "refs/heads/main"
    [] OTHER -> name

\* name.replace('refs/heads/', '')
ShortRefName(name) ==
  CASE name = "refs/heads/feature" -> "feature"
    [] name = "refs/heads/main" -> "main"
    [] OTHER -> name

\* the repository create_pull_request works on: never an argument
CprRepositoryId(a, cfg) == cfg.defaultRepository

CprVerifyError(repositoryId, project, msg) ==
  <<"Error verifying repository '", repositoryId, "' in project '", project, "': ">>
  \o msg

FormatCreatedPr(pr, repositoryId, source, target) ==
  <<"# Pull Request Created Successfully", "Pull Request #",
    ToString(pr.pullRequestId), repositoryId, "**Title**: ", pr.title,
    "**Source Branch**: ", ShortRefName(source),
    "**Target Branch**: ", ShortRefName(target),
    "**Status**: ", IF pr.isDraft THEN "Draft" ELSE "Active">>

CprInvoke ==
  /\ pc = "idle"
  /\ \E a \in [sourceRefName : SourceRefArgs, targetRefName : {"main"},
               title : {"T"}, project : ProjectArgs, isDraft : BOOLEAN,
               reviewers : ReviewerArgs, workItemIds : WorkItemIdArgs] :
       LET project == Or(a.project, config.defaultProject)
           repositoryId == CprRepositoryId(a, config)
           failed == ~connection \/ MissingProject(project)
                     \/ MissingRepository(repositoryId)
       IN /\ tool' = "create_pull_request"
          /\ args' = a
          /\ calls' = <<>>
          /\ IF failed
             THEN /\ world' = NoWorld
                  /\ loc' = LocInit
                  /\ Finish(CprCaught(
                       IF ~connection THEN MsgNoConnection
                       ELSE IF MissingProject(project) THEN MsgNoProject
                       ELSE MsgNoRepositoryConfigured))
             ELSE /\ \E l \in Listings : world' = [repositories |-> l]
                  /\ loc' = [LocInit EXCEPT !.project = project,
                                            !.repositoryId = repositoryId]
                  /\ pc' = "cpr_getGitApi"
                  /\ response' = NoResponse
  /\ UNCHANGED <<config, connection>>

CprGetGitApi ==
  /\ pc = "cpr_getGitApi"
  /\ \/ /\ calls' = Append(calls, Call("getGitApi", None, None, None, "ok"))
        /\ pc' = "cpr_verify"
        /\ response' = response
     \/ \E e \in AccessFailures :
          /\ calls' = Append(calls, Call("getGitApi", None, None, None, e))
          /\ Finish(CprCaught(ErrorMessage(e)))
  /\ UNCHANGED <<config, connection, tool, args, world, loc>>

\* whatever the lookup yields counts as the repository
RepositoryMissingNever(repository) == FALSE

\* !repository || !repository.id (line 99)
RepositoryMissing(repository) ==
  IsNull(repository) \/ Falsy(repository[1].id)

\* the verification that the repository exists (lines 97-112)
CprVerify ==
  /\ pc = "cpr_verify"
  /\ \E o \in BackendGetRepository(world.repositories, loc.repositoryId) :
       /\ calls' = Append(calls, Call("getRepository", loc.project,
                                      loc.repositoryId, None, OutcomeOf(o)))
       /\ IF IsThrow(o)
          THEN /\ Finish(CprCaught(CprVerifyError(loc.repositoryId, loc.project,
                                                  ErrorMessage(o.throws))))
               /\ loc' = loc
          ELSE IF RepositoryMissing(o.value)
          THEN /\ Finish(CprCaught(CprVerifyError(loc.repositoryId, loc.project,
                           <<"Repository '", loc.repositoryId, "' not found",
                             " in project '", loc.project, "'">>)))
               /\ loc' = loc
          ELSE /\ pc' = "cpr_create"
               /\ loc' = [loc EXCEPT !.repository = o.value]
               /\ response' = response
  /\ UNCHANGED <<config, connection, tool, args, world>>

\* gitApi.createPullRequest(pullRequestToCreate, repositoryId, project); the
\* reviewers and workItemIds blocks that follow it issue no call
CprCreate ==
  /\ pc = "cpr_create"
  /\ LET source == FullRefName(args.sourceRefName)
         target == FullRefName(args.targetRefName)
         call(outcome) == Call("createPullRequest", loc.project, loc.repositoryId,
                               [sourceRefName |-> source, targetRefName |-> target,
                                title |-> args.title, isDraft |-> args.isDraft],
                               outcome)
         created(id) == [pullRequestId |-> id, title |-> args.title,
                         isDraft |-> args.isDraft]
     IN \/ \E id \in CreatedPrIds :
             /\ calls' = Append(calls, call("ok"))
             /\ Finish(Returned(FormatCreatedPr(created(id), loc.repositoryId,
                                                source, target)))
        \/ /\ calls' = Append(calls, call("null"))
           /\ Finish(CprCaught(<<"Failed to create pull request">>))
        \/ \E e \in ThrowKinds :
             /\ calls' = Append(calls, call(e))
             /\ Finish(CprCaught(ErrorMessage(e)))
  /\ UNCHANGED <<config, connection, tool, args, world, loc>>

----------------------------------------------------------------------------
(* get_pull_request_diff *)

\* VersionControlChangeType
Add == 1
Edit == 2
Rename == 8
Delete == 16

GpdCaught(msg) ==
  Failed(<<"Error", "getting", "pull", "request", "diff", ":">> \o msg)

\* the repository get_pull_request_diff works on: never an argument
GpdRepositoryId(a, cfg) == cfg.defaultRepository

ChangeUniverse ==
  { [changeType |-> Add, item |-> Obj([path |-> "/a"])],
    [changeType |-> Add, item |-> Obj([path |-> "/c"])],
    [changeType |-> Edit, item |-> Obj([path |-> "/b"])],
    [changeType |-> Delete, item |-> Null],
    [changeType |-> Rename, item |-> Obj([path |-> ""])] }

ChangeLists == SeqsUpTo(ChangeUniverse, MaxChanges)

\* the pull requests the diff is asked for
DiffPullRequests ==
  { [pullRequestId |-> 7, sourceRefName |-> "refs/heads/feature",
     targetRefName |-> "refs/heads/main", repository |-> r] :
      r \in {Null, Obj([webUrl |-> None]), Obj([webUrl |-> "https://web"])} }

FormatChangeType(changeType) ==
  CASE changeType = Add -> "Added"
    [] changeType = Edit -> "Modified"
    [] changeType = Delete -> "Deleted"
    [] changeType = Rename -> "Renamed"
    [] OTHER -> "Other"

\* a filter that yields the entries of the type last to first
RECURSIVE FilterChangesLastFirst(_, _)
FilterChangesLastFirst(changes, type) ==
  IF changes = <<>> THEN <<>>
  ELSE FilterChangesLastFirst(Tail(changes), type)
       \o (IF Head(changes).changeType = type THEN <<Head(changes)>> ELSE <<>>)

\* changeEntries.filter(change => change.changeType === type)
RECURSIVE FilterChanges(_, _)
FilterChanges(changes, type) ==
  IF changes = <<>> THEN <<>>
  ELSE (IF Head(changes).changeType = type THEN <<Head(changes)>> ELSE <<>>)
       \o FilterChanges(Tail(changes), type)

\* the four groups of the change entries (lines 121-124)
Groups(changes) ==
  [additions |-> FilterChanges(changes, Add),
   edits |-> FilterChanges(changes, Edit),
   deletes |-> FilterChanges(changes, Delete),
   renames |-> FilterChanges(changes, Rename)]

\* change.item?.path || ''
ChangePath(change) == IF IsNull(change.item) THEN "" ELSE Or(change.item[1].path, "")

\* pullRequest.repository?.webUrl
RepositoryWebUrl(pr) == IF IsNull(pr.repository) THEN None ELSE pr.repository[1].webUrl

\* a link built whatever the web URL and the path are
ViewLinkUnguarded(pr, change) ==
  <<"[View](", RepositoryWebUrl(pr), ChangePath(change)>>

ViewLink(pr, change) ==
  IF ~Falsy(RepositoryWebUrl(pr)) /\ ~Falsy(ChangePath(change))
  THEN <<"[View](", RepositoryWebUrl(pr), ChangePath(change)>>
  ELSE <<"">>

FormatDiff(pr, changes, prId) ==
  LET row(change) == <<"|", FormatChangeType(change.changeType), ChangePath(change)>>
                     \o ViewLink(pr, change)
  IN <<"# Pull Request #", ToString(prId), " Diff", Or(pr.sourceRefName, ""),
       Or(pr.targetRefName, ""), "Total changes: ", ToString(Len(changes)),
       "- Added: ", ToString(Len(Groups(changes).additions)),
       "- Modified: ", ToString(Len(Groups(changes).edits)),
       "- Deleted: ", ToString(Len(Groups(changes).deletes)),
       "- Renamed: ", ToString(Len(Groups(changes).renames)),
       "## Changed Files">>
     \o FlatMap(row, changes)
     \o (IF Falsy(RepositoryWebUrl(pr)) THEN <<>>
         ELSE <<"[View full diff in browser](", RepositoryWebUrl(pr)>>)

GpdInvoke ==
  /\ pc = "idle"
  /\ \E a \in [pullRequestId : PullRequestIds, project : ProjectArgs] :
       LET project == Or(a.project, config.defaultProject)
           repositoryId == GpdRepositoryId(a, config)
           failed == ~connection \/ MissingProject(project)
                     \/ MissingRepository(repositoryId)
       IN /\ tool' = "get_pull_request_diff"
          /\ args' = a
          /\ calls' = <<>>
          /\ world' = NoWorld
          /\ IF failed
             THEN /\ loc' = LocInit
                  /\ Finish(GpdCaught(
                       IF ~connection THEN MsgNoConnection
                       ELSE IF MissingProject(project) THEN MsgNoProject
                       ELSE MsgNoDefaultRepository))
             ELSE /\ loc' = [LocInit EXCEPT !.project = project,
                                            !.repositoryId = repositoryId]
                  /\ pc' = "gpd_getGitApi"
                  /\ response' = NoResponse
  /\ UNCHANGED <<config, connection>>

GpdGetGitApi ==
  /\ pc = "gpd_getGitApi"
  /\ \/ /\ calls' = Append(calls, Call("getGitApi", None, None, None, "ok"))
        /\ pc' = "gpd_getPullRequest"
        /\ response' = response
     \/ \E e \in AccessFailures :
          /\ calls' = Append(calls, Call("getGitApi", None, None, None, e))
          /\ Finish(GpdCaught(ErrorMessage(e)))
  /\ UNCHANGED <<config, connection, tool, args, world, loc>>

GpdGetPullRequest ==
  /\ pc = "gpd_getPullRequest"
  /\ LET call(outcome) == Call("getPullRequest", loc.project, loc.repositoryId,
                               args.pullRequestId, outcome)
     IN \/ \E pr \in DiffPullRequests :
             /\ calls' = Append(calls, call("ok"))
             /\ pc' = "gpd_getChanges"
             /\ loc' = [loc EXCEPT !.pullRequest = Obj(pr)]
             /\ response' = response
        \/ /\ calls' = Append(calls, call("null"))
           /\ Finish(Returned(<<"Pull request #", ToString(args.pullRequestId),
                                " not found.">>))
           /\ loc' = loc
        \/ \E e \in ThrowKinds :
             /\ calls' = Append(calls, call(e))
             /\ Finish(GpdCaught(ErrorMessage(e)))
             /\ loc' = loc
  /\ UNCHANGED <<config, connection, tool, args, world>>

\* gitApi.getPullRequestIterationChanges(repositoryId, pullRequestId, 0, project)
GpdGetChanges ==
  /\ pc = "gpd_getChanges"
  /\ LET call(outcome) == Call("getPullRequestIterationChanges", loc.project,
                               loc.repositoryId, args.pullRequestId, outcome)
         none == <<"No changes found in pull request #",
                   ToString(args.pullRequestId), ".">>
     IN \/ \E changes \in ChangeLists :
             /\ calls' = Append(calls, call("ok"))
             /\ IF Len(changes) = 0
                THEN /\ loc' = loc
                     /\ Finish(Returned(none))
                ELSE /\ loc' = [loc EXCEPT !.changeEntries = changes,
                                           !.groups = Groups(changes)]
                     /\ Finish(Returned(FormatDiff(loc.pullRequest[1], changes,
                                                   args.pullRequestId)))
        \/ /\ calls' = Append(calls, call("null"))
           /\ loc' = loc
           /\ Finish(Returned(none))
        \/ \E e \in ThrowKinds :
             /\ calls' = Append(calls, call(e))
             /\ loc' = loc
             /\ Finish(GpdCaught(ErrorMessage(e)))
  /\ UNCHANGED <<config, connection, tool, args, world>>

----------------------------------------------------------------------------
(* Pipeline YAML: the extraction of the parameter schema *)

\* a line of 5000 characters
LongLine == "# ... (5000 characters)"

YamlLines ==
  {"parameters:", "  - name: env", "    default: prod", "  - name: region",
   "steps:", ""}

\* a YAML text is the sequence of its lines: the short texts, and a long one
YamlTexts == SeqsUpTo(YamlLines, MaxYamlLines) \cup {<<"steps:", LongLine>>}

LineLength(line) ==
  CASE line = LongLine -> 5000
    [] line = "" -> 0
    [] OTHER -> 20

RECURSIVE YamlLength(_)
YamlLength(yaml) ==
  IF yaml = <<>> THEN 0 ELSE LineLength(Head(yaml)) + 1 + YamlLength(Tail(yaml))

\* the line holds the text "parameters:"
HasParametersKey(line) == line = "parameters:"

\* the line without its leading white space
TrimStart(line) ==
  CASE line = "  - name: env" -> "- name: env"
    [] line = "    default: prod" -> "default: prod"
    [] line = "  - name: region" -> "- name: region"
    [] OTHER -> line

\* yamlContent.match(/parameters:\s*([\s\S]*?)(?=\n\w|$)/m)[1]: after the key
\* `\s*` runs over the white space and the line ends that follow it, and the
\* lazy group then stops at the first place where the lookahead holds, which
\* under the m flag is the end of the line it started on.  None is no match.
ParametersSection(yaml) ==
  LET keys == { i \in 1..Len(yaml) : HasParametersKey(yaml[i]) }
  IN IF keys = {} THEN None
     ELSE LET p == CHOOSE i \in keys : \A j \in keys : i <= j
              later == { i \in (p + 1)..Len(yaml) : yaml[i] # "" }
          IN IF later = {} THEN ""
             ELSE TrimStart(yaml[CHOOSE i \in later : \A j \in later : i <= j])

\* the first group of /\s*-\s*name:\s*([^\n]+).../ on a section, trimmed
ItemName(section) ==
  CASE section = "- name: env" -> "env"
    [] section = "- name: region" -> "region"
    [] OTHER -> None

\* the extraction without the test of a matched, non-empty section
SectionParametersUnguarded(section) ==
  << [name |-> ItemName(section), type |-> "string", default |-> "",
      displayName |-> ItemName(section)] >>

\* the entries pushed for the matches of the item expression on the section:
\* the name group runs to the end of the line, the lazy groups that follow
\* match the empty text and the optional groups match nothing
SectionParameters(section) ==
  IF Falsy(section) \/ ItemName(section) = None THEN <<>>
  ELSE << [name |-> ItemName(section), type |-> "string", default |-> "",
           displayName |-> ItemName(section)] >>

ExtractParameters(yaml) == SectionParameters(ParametersSection(yaml))

----------------------------------------------------------------------------
(* get_pipeline *)

PipelineIds == {5}
RecentRunsShown == 5
YamlDisplayLimit == 5000

PipelineConfigurations ==
  { Null,
    Obj([type |-> "yaml", path |-> "/ci.yml", repository |-> Obj([id |-> "id1"])]),
    Obj([type |-> "yaml", path |-> None, repository |-> Null]),
    Obj([type |-> "designerJson", path |-> "/ci.yml",
         repository |-> Obj([id |-> "id1"])]) }

Pipelines ==
  { [id |-> 5, name |-> "build", configuration |-> c] : c \in PipelineConfigurations }

\* the backend holds the pipeline or not
PipelineWorlds ==
  { [repositories |-> <<>>, pipeline |-> p] : p \in {Null} \cup { Obj(q) : q \in Pipelines } }

\* the n most recent runs of a pipeline, the latest first
Runs(n) == [k \in 1..n |-> [name |-> ToString(k), state |-> "completed",
                            result |-> "succeeded"]]

RunCounts == {0, 1, MaxRuns}

GpCaught(msg) == Failed(<<"Error", "getting", "pipeline", ":">> \o msg)

MsgPipelineNotFound(pipelineId) == <<"Pipeline ", ToString(pipelineId), " not found.">>

\* any configuration taken for a YAML one
IsYamlAnyType(configuration) == ~IsNull(configuration)

\* String(pipeline.configuration.type).toLowerCase() === 'yaml'
IsYaml(configuration) == ~IsNull(configuration) /\ configuration[1].type = "yaml"

\* runs.slice(0, 5)
Slice(s, n) == SubSeq(s, 1, IF Len(s) < n THEN Len(s) ELSE n)

FormatPipeline(pipeline) ==
  <<"# Pipeline ", ToString(pipeline.id), pipeline.name, "**Configuration Type**: ",
    IF IsNull(pipeline.configuration) THEN "Unknown"
    ELSE pipeline.configuration[1].type>>

FormatRun(run) == <<"- **Run ", run.name, run.state, run.result>>

FormatRuns(runs) ==
  IF Len(runs) > 0
  THEN <<"## Recent Runs">> \o FlatMap(FormatRun, Slice(runs, RecentRunsShown))
  ELSE <<>>

FormatParameter(param) ==
  <<"- **", param.name, param.type, param.displayName, "Default: ",
    IF Falsy(param.default) THEN "None" ELSE param.default>>

FormatParameters(parameters) ==
  IF Len(parameters) > 0
  THEN <<"## Pipeline Parameters">> \o FlatMap(FormatParameter, parameters)
       \o <<"### Example Usage with Parameters">>
  ELSE <<>>

\* the lines before the first long line, and the beginning of that line
RECURSIVE Beginning(_)
Beginning(yaml) ==
  IF yaml = <<>> THEN <<>>
  ELSE IF Head(yaml) = LongLine THEN <<"# ... (1000 characters)">>
  ELSE <<Head(yaml)>> \o Beginning(Tail(yaml))

FormatYaml(yaml) ==
  IF YamlLength(yaml) < YamlDisplayLimit
  THEN <<"## Pipeline YAML">> \o yaml
  ELSE <<"## Pipeline YAML", "YAML content is too long to display in full">>
       \o Beginning(yaml)

FormatYamlFailure(msg) == <<"## Pipeline YAML", "Failed to retrieve YAML content: ">> \o msg

\* the steps between the second getPipeline and getItemContent (lines 119-128)
YamlLocation(details) ==
  IF /\ ~IsNull(details)
     /\ IsYaml(details[1].configuration)
     /\ ~Falsy(details[1].configuration[1].path)
     /\ ~IsNull(details[1].configuration[1].repository)
     /\ ~Falsy(details[1].configuration[1].repository[1].id)
  THEN Obj([repoId |-> details[1].configuration[1].repository[1].id,
            path |-> details[1].configuration[1].path])
  ELSE Null

GpInvoke ==
  /\ pc = "idle"
  /\ \E a \in [pipelineId : PipelineIds, project : ProjectArgs,
               includeYaml : BOOLEAN] :
       LET project == Or(a.project, config.defaultProject)
           failed == ~connection \/ MissingProject(project)
       IN /\ tool' = "get_pipeline"
          /\ args' = a
          /\ calls' = <<>>
          /\ IF failed
             THEN /\ world' = NoWorld
                  /\ loc' = LocInit
                  /\ Finish(GpCaught(
                       IF ~connection THEN MsgNoConnection ELSE MsgNoProject))
             ELSE /\ \E w \in PipelineWorlds : world' = w
                  /\ loc' = [LocInit EXCEPT !.project = project]
                  /\ pc' = "gp_getPipelinesApi"
                  /\ response' = NoResponse
  /\ UNCHANGED <<config, connection>>

GpGetPipelinesApi ==
  /\ pc = "gp_getPipelinesApi"
  /\ \/ /\ calls' = Append(calls, Call("getPipelinesApi", None, None, None, "ok"))
        /\ pc' = "gp_getPipeline"
        /\ response' = response
     \/ \E e \in AccessFailures :
          /\ calls' = Append(calls, Call("getPipelinesApi", None, None, None, e))
          /\ Finish(GpCaught(ErrorMessage(e)))
  /\ UNCHANGED <<config, connection, tool, args, world, loc>>

GpGetPipeline ==
  /\ pc = "gp_getPipeline"
  /\ LET call(outcome) == Call("getPipeline", loc.project, None, args.pipelineId,
                               outcome)
     IN \/ /\ calls' = Append(calls, call(OutcomeOf(Value(world.pipeline))))
           /\ IF IsNull(world.pipeline)
              THEN /\ Finish(Returned(MsgPipelineNotFound(args.pipelineId)))
                   /\ loc' = loc
              ELSE /\ pc' = "gp_listRuns"
                   /\ loc' = [loc EXCEPT !.pipeline = world.pipeline,
                                         !.text = FormatPipeline(world.pipeline[1])]
                   /\ response' = response
        \/ \E e \in ThrowKinds :
             /\ calls' = Append(calls, call(e))
             /\ Finish(GpCaught(ErrorMessage(e)))
             /\ loc' = loc
  /\ UNCHANGED <<config, connection, tool, args, world>>

\* the runs section (lines 88-107), then the return unless includeYaml
GpListRuns ==
  /\ pc = "gp_listRuns"
  /\ LET call(outcome) == Call("listRuns", loc.project, None, args.pipelineId, outcome)
         continue(text) ==
           IF args.includeYaml
           THEN /\ pc' = "gp_getGitApi"
                /\ loc' = [loc EXCEPT !.text = text]
                /\ response' = response
           ELSE /\ Finish(Returned(text))
                /\ loc' = [loc EXCEPT !.text = text]
     IN \/ \E n \in RunCounts :
             /\ calls' = Append(calls, call("ok"))
             /\ continue(loc.text \o FormatRuns(Runs(n)))
        \/ /\ calls' = Append(calls, call("null"))
           /\ continue(loc.text)
        \/ \E e \in ThrowKinds :
             /\ calls' = Append(calls, call(e))
             /\ continue(loc.text)
  /\ UNCHANGED <<config, connection, tool, args, world>>

GpGetGitApi ==
  /\ pc = "gp_getGitApi"
  /\ \/ /\ calls' = Append(calls, Call("getGitApi", None, None, None, "ok"))
        /\ pc' = "gp_getDetails"
        /\ response' = response
     \/ \E e \in AccessFailures :
          /\ calls' = Append(calls, Call("getGitApi", None, None, None, e))
          /\ Finish(Returned(loc.text \o FormatYamlFailure(ErrorMessage(e))))
  /\ UNCHANGED <<config, connection, tool, args, world, loc>>

\* the second getPipeline, of the includeYaml block (line 116)
GpGetDetails ==
  /\ pc = "gp_getDetails"
  /\ LET call(outcome) == Call("getPipeline", loc.project, None, args.pipelineId,
                               outcome)
     IN \/ /\ calls' = Append(calls, call("ok"))
           /\ IF IsNull(YamlLocation(world.pipeline))
              THEN Finish(Returned(loc.text))
              ELSE /\ pc' = "gp_getItemContent"
                   /\ response' = response
        \/ \E e \in ThrowKinds :
             /\ calls' = Append(calls, call(e))
             /\ Finish(Returned(loc.text \o FormatYamlFailure(ErrorMessage(e))))
  /\ UNCHANGED <<config, connection, tool, args, world, loc>>

\* gitApi.getItemContent(repoId, yamlFilePath) and what is made of the content
GpGetItemContent ==
  /\ pc = "gp_getItemContent"
  /\ LET at == YamlLocation(world.pipeline)[1]
         call(outcome) == Call("getItemContent", None, at.repoId, at.path, outcome)
     IN \/ \E yaml \in YamlTexts :
             /\ calls' = Append(calls, call("ok"))
             /\ loc' = [loc EXCEPT !.yamlContent = Obj(yaml),
                                   !.yamlParameters = ExtractParameters(yaml)]
             /\ Finish(Returned(loc.text
                                \o FormatParameters(ExtractParameters(yaml))
                                \o FormatYaml(yaml)))
        \/ /\ calls' = Append(calls, call("null"))
           /\ loc' = loc
           /\ Finish(Returned(loc.text))
        \/ \E e \in ThrowKinds :
             /\ calls' = Append(calls, call(e))
             /\ loc' = loc
             /\ Finish(Returned(loc.text \o FormatYamlFailure(ErrorMessage(e))))
  /\ UNCHANGED <<config, connection, tool, args, world>>

----------------------------------------------------------------------------
(* run_pipeline *)

BranchArgs == {None, "main"}

\* a record of strings is the sequence of its <<key, value>> entries
ParametersArgs == {Null, Obj(<<>>), Obj(<< <<"env", "prod">> >>)}
VariablesArgs == {Null, Obj(<< <<"v", "1">> >>)}

\* args.branch ? `refs/heads/${args.branch}` : undefined
RefsHeads(branch) == IF Falsy(branch) THEN None ELSE "refs/heads/main"

RpCaught(msg) == Failed(<<"Error", "running", "pipeline", ":">> \o msg)

\* args.parameters && args.parameters[name] !== undefined
IsProvided(parameters, name) ==
  /\ ~IsNull(parameters)
  /\ \E i \in 1..Len(parameters[1]) : parameters[1][i][1] = name

\* !param.default && param.default !== ''
IsRequired(param) == Falsy(param.default) /\ param.default # ""

RECURSIVE MissingParams(_, _)
MissingParams(yamlParameters, parameters) ==
  IF yamlParameters = <<>> THEN <<>>
  ELSE (IF IsRequired(Head(yamlParameters))
           /\ ~IsProvided(parameters, Head(yamlParameters).name)
        THEN <<Head(yamlParameters).name>> ELSE <<>>)
       \o MissingParams(Tail(yamlParameters), parameters)

\* yamlParameters.find(p => p.name === key)?.displayName, or the key
DisplayNameOf(yamlParameters, key) ==
  LET hits == { i \in 1..Len(yamlParameters) : yamlParameters[i].name = key }
  IN IF hits = {} THEN key
     ELSE yamlParameters[CHOOSE i \in hits : \A j \in hits : i <= j].displayName

FormatPipelineRun(pipeline, a, yamlParameters) ==
  LET entry(kv) == <<"- **", kv[1], kv[2]>>
                   \o (IF DisplayNameOf(yamlParameters, kv[1]) # kv[1]
                       THEN <<DisplayNameOf(yamlParameters, kv[1])>> ELSE <<>>)
      variable(kv) == <<"- **", kv[1], kv[2]>>
  IN <<"# Pipeline Run Started", "**Pipeline**: ", pipeline.name,
       ToString(a.pipelineId), "**Branch**: ", Or(a.branch, "Default branch")>>
     \o (IF ~IsNull(a.parameters) /\ Len(a.parameters[1]) > 0
         THEN <<"## Parameters">> \o FlatMap(entry, a.parameters[1]) ELSE <<>>)
     \o (IF ~IsNull(a.variables) /\ Len(a.variables[1]) > 0
         THEN <<"## Variables">> \o FlatMap(variable, a.variables[1]) ELSE <<>>)

RpInvoke ==
  /\ pc = "idle"
  /\ \E a \in [pipelineId : PipelineIds, project : ProjectArgs, branch : BranchArgs,
               parameters : ParametersArgs, variables : VariablesArgs] :
       LET project == Or(a.project, config.defaultProject)
           failed == ~connection \/ MissingProject(project)
       IN /\ tool' = "run_pipeline"
          /\ args' = a
          /\ calls' = <<>>
          /\ IF failed
             THEN /\ world' = NoWorld
                  /\ loc' = LocInit
                  /\ Finish(RpCaught(
                       IF ~connection THEN MsgNoConnection ELSE MsgNoProject))
             ELSE /\ \E w \in PipelineWorlds : world' = w
                  /\ loc' = [LocInit EXCEPT !.project = project]
                  /\ pc' = "rp_getPipelinesApi"
                  /\ response' = NoResponse
  /\ UNCHANGED <<config, connection>>

RpGetPipelinesApi ==
  /\ pc = "rp_getPipelinesApi"
  /\ \/ /\ calls' = Append(calls, Call("getPipelinesApi", None, None, None, "ok"))
        /\ pc' = "rp_getPipeline"
        /\ response' = response
     \/ \E e \in AccessFailures :
          /\ calls' = Append(calls, Call("getPipelinesApi", None, None, None, e))
          /\ Finish(RpCaught(ErrorMessage(e)))
  /\ UNCHANGED <<config, connection, tool, args, world, loc>>

RpGetPipeline ==
  /\ pc = "rp_getPipeline"
  /\ LET call(outcome) == Call("getPipeline", loc.project, None, args.pipelineId,
                               outcome)
     IN \/ /\ calls' = Append(calls, call(OutcomeOf(Value(world.pipeline))))
           /\ IF IsNull(world.pipeline)
              THEN /\ Finish(Returned(MsgPipelineNotFound(args.pipelineId)))
                   /\ loc' = loc
              ELSE /\ pc' = IF IsYaml(world.pipeline[1].configuration)
                            THEN "rp_getGitApi" ELSE "rp_run"
                   /\ loc' = [loc EXCEPT !.pipeline = world.pipeline]
                   /\ response' = response
        \/ \E e \in ThrowKinds :
             /\ calls' = Append(calls, call(e))
             /\ Finish(RpCaught(ErrorMessage(e)))
             /\ loc' = loc
  /\ UNCHANGED <<config, connection, tool, args, world>>

\* a failure inside the YAML block ends the invocation
RpYamlFailedPropagates(e) == Finish(RpCaught(ErrorMessage(e)))

\* the catch of the YAML block (lines 128-131): the failure is logged and
\* the handler goes on to the run
RpYamlFailed(e) ==
  /\ pc' = "rp_run"
  /\ response' = response

RpGetGitApi ==
  /\ pc = "rp_getGitApi"
  /\ \/ /\ calls' = Append(calls, Call("getGitApi", None, None, None, "ok"))
        /\ pc' = "rp_getDetails"
        /\ response' = response
     \/ \E e \in AccessFailures :
          /\ calls' = Append(calls, Call("getGitApi", None, None, None, e))
          /\ RpYamlFailed(e)
  /\ UNCHANGED <<config, connection, tool, args, world, loc>>

\* the second getPipeline, of the YAML block (line 90)
RpGetDetails ==
  /\ pc = "rp_getDetails"
  /\ LET call(outcome) == Call("getPipeline", loc.project, None, args.pipelineId,
                               outcome)
     IN \/ /\ calls' = Append(calls, call("ok"))
           /\ pc' = IF IsNull(YamlLocation(world.pipeline))
                    THEN "rp_run" ELSE "rp_getItemContent"
           /\ response' = response
        \/ \E e \in ThrowKinds :
             /\ calls' = Append(calls, call(e))
             /\ RpYamlFailed(e)
  /\ UNCHANGED <<config, connection, tool, args, world, loc>>

RpGetItemContent ==
  /\ pc = "rp_getItemContent"
  /\ LET at == YamlLocation(world.pipeline)[1]
         call(outcome) == Call("getItemContent", None, at.repoId, at.path, outcome)
     IN \/ \E yaml \in YamlTexts :
             /\ calls' = Append(calls, call("ok"))
             /\ loc' = [loc EXCEPT !.yamlContent = Obj(yaml),
                                   !.yamlParameters = ExtractParameters(yaml)]
             /\ pc' = "rp_run"
             /\ response' = response
        \/ /\ calls' = Append(calls, call("null"))
           /\ loc' = loc
           /\ pc' = "rp_run"
           /\ response' = response
        \/ \E e \in ThrowKinds :
             /\ calls' = Append(calls, call(e))
             /\ loc' = loc
             /\ RpYamlFailed(e)
  /\ UNCHANGED <<config, connection, tool, args, world>>

\* the validation of the parameters and the run (lines 135-229); the text of
\* the YAML file is a constant of the block that has just ended
RpRun ==
  /\ pc = "rp_run"
  /\ LET missing == MissingParams(loc.yamlParameters, args.parameters)
         call(outcome) == Call("runPipeline", loc.project, None,
                               [pipelineId |-> args.pipelineId,
                                refName |-> RefsHeads(args.branch),
                                templateParameters |-> args.parameters,
                                variables |-> args.variables], outcome)
     IN IF Len(missing) > 0
        THEN /\ Finish(Failed(<<"Error", ":", "Missing required parameters: ">>
                              \o missing))
             /\ calls' = calls
        ELSE \/ /\ calls' = Append(calls, call("ok"))
                /\ Finish(Returned(FormatPipelineRun(loc.pipeline[1], args,
                                                     loc.yamlParameters)))
             \/ /\ calls' = Append(calls, call("null"))
                /\ Finish(Failed(<<"Failed", "to", "run", "pipeline",
                                   ToString(args.pipelineId), ".">>))
             \/ \E e \in ThrowKinds :
                  /\ calls' = Append(calls, call(e))
                  /\ Finish(RpCaught(ErrorMessage(e)))
  /\ loc' = [loc EXCEPT !.yamlContent = Null]
  /\ UNCHANGED <<config, connection, tool, args, world>>

----------------------------------------------------------------------------
(* get_work_item *)

WorkItemIds == {1}

HierarchyReverse == "System.LinkTypes.Hierarchy-Reverse"
HierarchyForward == "System.LinkTypes.Hierarchy-Forward"

RelationUniverse ==
  { [rel |-> HierarchyReverse, url |-> "https://org/_apis/wit/workItems/10"],
    [rel |-> HierarchyReverse, url |-> None],
    [rel |-> HierarchyForward, url |-> "https://org/_apis/wit/workItems/20"],
    [rel |-> HierarchyForward, url |-> "https://org/_apis/wit/workItems/21"],
    [rel |-> "System.LinkTypes.Related", url |-> "https://org/_apis/wit/workItems/30"] }

RelationLists == SeqsUpTo(RelationUniverse, MaxRelations)

\* url.match(/workItems\/(\d+)$/) ? parseInt(idMatch[1]) : null, 0 standing for null
IdOfUrl(url) ==
  CASE url = "https://org/_apis/wit/workItems/10" -> 10
    [] url = "https://org/_apis/wit/workItems/20" -> 20
    [] url = "https://org/_apis/wit/workItems/21" -> 21
    [] url = "https://org/_apis/wit/workItems/30" -> 30
    [] OTHER -> 0

\* relations.filter(rel => rel.rel === type).map(id of url).filter(id !== null)
RECURSIVE RelatedIds(_, _)
RelatedIds(relations, type) ==
  IF relations = <<>> THEN <<>>
  ELSE (IF Head(relations).rel = type /\ IdOfUrl(Head(relations).url) # 0
        THEN <<IdOfUrl(Head(relations).url)>> ELSE <<>>)
       \o RelatedIds(Tail(relations), type)

\* a work item as the backend delivers it; `fields` may be missing
WorkItem(id, fields, relations) ==
  [id |-> id,
   fields |-> IF fields THEN Obj([title |-> "Title", type |-> "Task"]) ELSE Null,
   relations |-> relations]

WorkItemWorlds ==
  { [repositories |-> <<>>, workItem |-> w] :
      w \in {Null} \cup { Obj(WorkItem(1, TRUE, Obj(r))) : r \in RelationLists }
                   \cup { Obj(WorkItem(1, TRUE, Null)) } }

GwiCaught(msg) == Failed(<<"Error", "getting", "work", "item", ":">> \o msg)

\* the entry made of a linked work item (lines 133-139)
FormatLinked(wi) ==
  <<"- [", ToString(wi.id),
    IF IsNull(wi.fields) THEN "Unknown Title" ELSE wi.fields[1].title,
    IF IsNull(wi.fields) THEN "Unknown Type" ELSE wi.fields[1].type>>

FormatWorkItem(workItem, parentItems, childItems) ==
  <<"# Work Item ", ToString(workItem.id),
    IF IsNull(workItem.fields) THEN None ELSE workItem.fields[1].title,
    "**Type**: ", IF IsNull(workItem.fields) THEN None ELSE workItem.fields[1].type>>
  \o (IF Len(parentItems) > 0
      THEN <<"## Parent Work Items">> \o FlatMap(FormatLinked, parentItems) ELSE <<>>)
  \o (IF Len(childItems) > 0
      THEN <<"## Child Work Items">> \o FlatMap(FormatLinked, childItems) ELSE <<>>)

\* the IDs of the work item's parents, or of its children, that are fetched
LinkedIds(workItem, includeRelations, type) ==
  IF includeRelations /\ ~IsNull(workItem.relations)
  THEN RelatedIds(workItem.relations[1], type)
  ELSE <<>>

\* witApi.getWorkItems(ids): the work items of the IDs, in order
BackendGetWorkItems(ids, fields) == [k \in 1..Len(ids) |-> WorkItem(ids[k], fields, Null)]

GwiInvoke ==
  /\ pc = "idle"
  /\ \E a \in [workItemId : WorkItemIds, project : ProjectArgs,
               includeRelations : BOOLEAN] :
       LET project == Or(a.project, config.defaultProject)
           failed == ~connection \/ MissingProject(project)
       IN /\ tool' = "get_work_item"
          /\ args' = a
          /\ calls' = <<>>
          /\ IF failed
             THEN /\ world' = NoWorld
                  /\ loc' = LocInit
                  /\ Finish(GwiCaught(
                       IF ~connection THEN MsgNoConnection ELSE MsgNoProject))
             ELSE /\ \E w \in WorkItemWorlds : world' = w
                  /\ loc' = [LocInit EXCEPT !.project = project]
                  /\ pc' = "gwi_getApi"
                  /\ response' = NoResponse
  /\ UNCHANGED <<config, connection>>

GwiGetApi ==
  /\ pc = "gwi_getApi"
  /\ \/ /\ calls' = Append(calls, Call("getWorkItemTrackingApi", None, None, None, "ok"))
        /\ pc' = "gwi_getWorkItem"
        /\ response' = response
     \/ \E e \in AccessFailures :
          /\ calls' = Append(calls, Call("getWorkItemTrackingApi", None, None, None, e))
          /\ Finish(GwiCaught(ErrorMessage(e)))
  /\ UNCHANGED <<config, connection, tool, args, world, loc>>

\* witApi.getWorkItem(workItemId, undefined, undefined, expand): relations are
\* delivered only when they are expanded
GwiGetWorkItem ==
  /\ pc = "gwi_getWorkItem"
  /\ LET call(outcome) == Call("getWorkItem", None, None,
                               [id |-> args.workItemId,
                                expand |-> IF args.includeRelations THEN "Relations"
                                           ELSE "None"], outcome)
         workItem == IF IsNull(world.workItem) \/ args.includeRelations
                     THEN world.workItem
                     ELSE Obj([world.workItem[1] EXCEPT !.relations = Null])
     IN \/ /\ calls' = Append(calls, call(OutcomeOf(Value(workItem))))
           /\ IF IsNull(workItem)
              THEN /\ Finish(Returned(<<"Work item ", ToString(args.workItemId),
                                        " not found.">>))
                   /\ loc' = loc
              ELSE /\ loc' = [loc EXCEPT !.workItem = workItem]
                   /\ IF Len(LinkedIds(workItem[1], args.includeRelations,
                                       HierarchyReverse)) > 0
                      THEN pc' = "gwi_parents" /\ response' = response
                      ELSE IF Len(LinkedIds(workItem[1], args.includeRelations,
                                            HierarchyForward)) > 0
                      THEN pc' = "gwi_children" /\ response' = response
                      ELSE Finish(Returned(FormatWorkItem(workItem[1], <<>>, <<>>)))
        \/ \E e \in ThrowKinds :
             /\ calls' = Append(calls, call(e))
             /\ Finish(GwiCaught(ErrorMessage(e)))
             /\ loc' = loc
  /\ UNCHANGED <<config, connection, tool, args, world>>

\* witApi.getWorkItems(parentIds) (line 132)
GwiParents ==
  /\ pc = "gwi_parents"
  /\ LET ids == LinkedIds(loc.workItem[1], args.includeRelations, HierarchyReverse)
         call(outcome) == Call("getWorkItems", None, None, ids, outcome)
     IN \/ \E fields \in BOOLEAN :
             LET parentItems == BackendGetWorkItems(ids, fields)
             IN /\ calls' = Append(calls, call("ok"))
                /\ loc' = [loc EXCEPT !.parentItems = parentItems]
                /\ IF Len(LinkedIds(loc.workItem[1], args.includeRelations,
                                    HierarchyForward)) > 0
                   THEN pc' = "gwi_children" /\ response' = response
                   ELSE Finish(Returned(FormatWorkItem(loc.workItem[1],
                                                       parentItems, <<>>)))
        \/ \E e \in ThrowKinds :
             /\ calls' = Append(calls, call(e))
             /\ Finish(GwiCaught(ErrorMessage(e)))
             /\ loc' = loc
  /\ UNCHANGED <<config, connection, tool, args, world>>

\* witApi.getWorkItems(childIds) (line 154)
GwiChildren ==
  /\ pc = "gwi_children"
  /\ LET ids == LinkedIds(loc.workItem[1], args.includeRelations, HierarchyForward)
         call(outcome) == Call("getWorkItems", None, None, ids, outcome)
     IN \/ \E fields \in BOOLEAN :
             LET childItems == BackendGetWorkItems(ids, fields)
             IN /\ calls' = Append(calls, call("ok"))
                /\ loc' = [loc EXCEPT !.childItems = childItems]
                /\ Finish(Returned(FormatWorkItem(loc.workItem[1], loc.parentItems,
                                                  childItems)))
        \/ \E e \in ThrowKinds :
             /\ calls' = Append(calls, call(e))
             /\ Finish(GwiCaught(ErrorMessage(e)))
             /\ loc' = loc
  /\ UNCHANGED <<config, connection, tool, args, world>>

----------------------------------------------------------------------------
(* create_work_item *)

ParentIdArgs == {0, 10}
RelatedIdArgs == {0, 30}
CreatedWorkItemIds == {0, 100}

\* a call awaited without a timer
RaceFailuresNoTimer == ThrowKinds

\* how a call raced against a timer ends: it completes or fails first, or
\* the timer fires first and the call is left pending
RaceFailures == ThrowKinds \cup {"Timeout"}

CwiCaught(msg) == Failed(<<"Error", "creating", "work", "item", ":">> \o msg)

\* a timeout reported as a lookup failure
RaceMessageAsNotFound(e, timeoutMsg) ==
  ErrorMessage(IF e = "Timeout" THEN "NotFound" ELSE e)

\* the message of the error a race rejects with
RaceMessage(e, timeoutMsg) == IF e = "Timeout" THEN timeoutMsg ELSE ErrorMessage(e)

FormatLinkedSection(heading, wi, relationship) ==
  IF IsNull(wi) THEN <<>>
  ELSE <<heading, "**ID**: ", ToString(wi[1].id), "**Relationship**: ", relationship>>

FormatCreatedWorkItem(workItem, parentWorkItem, relatedWorkItem, a) ==
  <<"# Work Item Created", "**ID**: ", ToString(workItem.id), "**Title**: ",
    IF IsNull(workItem.fields) THEN None ELSE workItem.fields[1].title>>
  \o FormatLinkedSection("## Parent Work Item", parentWorkItem, Or(a.linkType, "Child"))
  \o FormatLinkedSection("## Related Work Item", relatedWorkItem,
                         Or(a.relatedWorkItemLinkType, "Related"))

\* the response right after a parent block that found no parent
CwiAfterParentStops(parentWorkItem) ==
  IF args.relatedWorkItemId # 0 /\ ~IsNull(parentWorkItem)
  THEN /\ pc' = "cwi_getRelated"
       /\ response' = response
  ELSE Finish(Returned(FormatCreatedWorkItem(loc.workItem[1], parentWorkItem,
                                             Null, args)))

\* the steps after the parent block (lines 426-428): the related block if a
\* related ID was given, else the response
CwiAfterParent(parentWorkItem) ==
  IF args.relatedWorkItemId # 0
  THEN /\ pc' = "cwi_getRelated"
       /\ response' = response
  ELSE Finish(Returned(FormatCreatedWorkItem(loc.workItem[1], parentWorkItem,
                                             Null, args)))

\* the steps after the related block (lines 478-525)
CwiAfterRelated(relatedWorkItem) ==
  Finish(Returned(FormatCreatedWorkItem(loc.workItem[1], loc.parentWorkItem,
                                        relatedWorkItem, args)))

\* the backend of create_work_item: the calls that lost their race against
\* the timer and are still in flight, by their place in the log of calls
NothingPending == [repositories |-> <<>>, pending |-> {}]

\* the call is cancelled when its timer fires
LeftPendingCancelled(outcome) == world

\* the call about to be logged stays in flight when the timer won the race
LeftPending(outcome) ==
  IF outcome = "Timeout"
  THEN [world EXCEPT !.pending = @ \cup {Len(calls) + 1}]
  ELSE world

CwiInvoke ==
  /\ pc = "idle"
  /\ \E a \in [project : ProjectArgs, title : {"Title"}, workItemType : {"Task"},
               parentId : ParentIdArgs, linkType : {HierarchyReverse},
               relatedWorkItemId : RelatedIdArgs,
               relatedWorkItemLinkType : {"Related"}] :
       LET project == Or(a.project, config.defaultProject)
           failed == ~connection \/ MissingProject(project)
       IN /\ tool' = "create_work_item"
          /\ args' = a
          /\ calls' = <<>>
          /\ world' = NothingPending
          /\ IF failed
             THEN /\ loc' = LocInit
                  /\ Finish(CwiCaught(
                       IF ~connection THEN MsgNoConnection ELSE MsgNoProject))
             ELSE /\ loc' = [LocInit EXCEPT !.project = project]
                  /\ pc' = "cwi_getApi"
                  /\ response' = NoResponse
  /\ UNCHANGED <<config, connection>>

CwiGetApi ==
  /\ pc = "cwi_getApi"
  /\ \/ /\ calls' = Append(calls, Call("getWorkItemTrackingApi", None, None, None, "ok"))
        /\ pc' = "cwi_create"
        /\ response' = response
        /\ world' = world
     \/ \E e \in AccessFailures \cup {"Timeout"} :
          /\ calls' = Append(calls, Call("getWorkItemTrackingApi", None, None, None, e))
          /\ world' = LeftPending(e)
          /\ Finish(CwiCaught(RaceMessage(e, <<"Timeout getting Work Item Tracking API">>)))
  /\ UNCHANGED <<config, connection, tool, args, loc>>

\* witApi.createWorkItem(undefined, patchDocument, project, workItemType)
CwiCreate ==
  /\ pc = "cwi_create"
  /\ LET call(outcome) == Call("createWorkItem", loc.project, None,
                               [title |-> args.title, type |-> args.workItemType],
                               outcome)
     IN \/ \E id \in CreatedWorkItemIds :
             /\ calls' = Append(calls, call("ok"))
             /\ world' = world
             /\ loc' = [loc EXCEPT !.workItem = Obj(WorkItem(id, TRUE, Null))]
             /\ IF args.parentId # 0
                THEN pc' = "cwi_getParent" /\ response' = response
                ELSE IF args.relatedWorkItemId # 0
                THEN pc' = "cwi_getRelated" /\ response' = response
                ELSE Finish(Returned(FormatCreatedWorkItem(WorkItem(id, TRUE, Null),
                                                           Null, Null, args)))
        \/ /\ calls' = Append(calls, call("null"))
           /\ world' = world
           /\ Finish(Failed(<<"Failed", "to", "create", "work", "item", ".">>))
           /\ loc' = loc
        \/ \E e \in RaceFailures :
             /\ calls' = Append(calls, call(e))
             /\ world' = LeftPending(e)
             /\ Finish(CwiCaught(RaceMessage(e, <<"Timeout creating work item">>)))
             /\ loc' = loc
  /\ UNCHANGED <<config, connection, tool, args>>

\* witApi.getWorkItem(parentId, ..., project) (lines 379-387)
CwiGetParent ==
  /\ pc = "cwi_getParent"
  /\ LET call(outcome) == Call("getWorkItem", loc.project, None,
                               [id |-> args.parentId, expand |-> None], outcome)
     IN \/ \E fields \in BOOLEAN :
             LET parent == Obj(WorkItem(args.parentId, fields, Null))
             IN /\ calls' = Append(calls, call("ok"))
                /\ world' = world
                /\ loc' = [loc EXCEPT !.parentWorkItem = parent]
                /\ IF loc.workItem[1].id # 0
                   THEN pc' = "cwi_linkParent" /\ response' = response
                   ELSE CwiAfterParent(parent)
        \/ \E o \in {"null"} \cup RaceFailures :
             /\ calls' = Append(calls, call(o))
             /\ world' = LeftPending(o)
             /\ loc' = loc
             /\ CwiAfterParent(Null)
  /\ UNCHANGED <<config, connection, tool, args>>

\* witApi.updateWorkItem(undefined, linkPatchDocument, workItem.id, project)
CwiLinkParent ==
  /\ pc = "cwi_linkParent"
  /\ \E o \in {"ok", "null"} \cup RaceFailures :
       /\ calls' = Append(calls, Call("updateWorkItem", loc.project, None,
                                      [id |-> loc.workItem[1].id,
                                       rel |-> Or(args.linkType, HierarchyReverse),
                                       target |-> args.parentId], o))
       /\ world' = LeftPending(o)
       /\ CwiAfterParent(loc.parentWorkItem)
  /\ UNCHANGED <<config, connection, tool, args, loc>>

\* witApi.getWorkItem(relatedWorkItemId, ..., project) (lines 431-439)
CwiGetRelated ==
  /\ pc = "cwi_getRelated"
  /\ LET call(outcome) == Call("getWorkItem", loc.project, None,
                               [id |-> args.relatedWorkItemId, expand |-> None],
                               outcome)
     IN \/ \E fields \in BOOLEAN :
             LET related == Obj(WorkItem(args.relatedWorkItemId, fields, Null))
             IN /\ calls' = Append(calls, call("ok"))
                /\ world' = world
                /\ loc' = [loc EXCEPT !.relatedWorkItem = related]
                /\ IF loc.workItem[1].id # 0
                   THEN pc' = "cwi_linkRelated" /\ response' = response
                   ELSE CwiAfterRelated(related)
        \/ \E o \in {"null"} \cup RaceFailures :
             /\ calls' = Append(calls, call(o))
             /\ world' = LeftPending(o)
             /\ loc' = loc
             /\ CwiAfterRelated(Null)
  /\ UNCHANGED <<config, connection, tool, args>>

CwiLinkRelated ==
  /\ pc = "cwi_linkRelated"
  /\ \E o \in {"ok", "null"} \cup RaceFailures :
       /\ calls' = Append(calls, Call("updateWorkItem", loc.project, None,
                                      [id |-> loc.workItem[1].id,
                                       rel |-> Or(args.relatedWorkItemLinkType, "Related"),
                                       target |-> args.relatedWorkItemId], o))
       /\ world' = LeftPending(o)
       /\ CwiAfterRelated(loc.relatedWorkItem)
  /\ UNCHANGED <<config, connection, tool, args, loc>>

\* a call that lost its race settles: Promise.race has settled with the
\* timer's rejection, and the late result of the call goes nowhere
CwiSettleLate ==
  /\ tool = "create_work_item"
  /\ \E k \in world.pending :
       world' = [world EXCEPT !.pending = @ \ {k}]
  /\ UNCHANGED <<config, connection, tool, args, pc, loc, calls, response>>

----------------------------------------------------------------------------
(* edit_wiki_page and create_wiki *)

WikiIdentifiers == {"wiki1"}
VersionArgs == {None, "", "v2"}

EwpCaught(msg) == Thrown(<<"Failed", "to", "edit", "wiki", "page", ":">> \o msg)

CwCaught(msg) == Thrown(<<"Failed", "to", "create", "wiki", ":">> \o msg)

EwpInvoke ==
  /\ pc = "idle"
  /\ \E a \in [wikiIdentifier : WikiIdentifiers, path : {"/Home"},
               content : {"text"}, projectId : ProjectArgs, version : VersionArgs] :
       /\ tool' = "edit_wiki_page"
       /\ args' = a
       /\ calls' = <<>>
       /\ world' = NoWorld
       /\ loc' = LocInit
       /\ IF ~connection
          THEN Finish(EwpCaught(MsgNoConnection))
          ELSE /\ pc' = "ewp_getWikiApi"
               /\ response' = NoResponse
  /\ UNCHANGED <<config, connection>>

\* connection.getWikiApi(), then the resolution of the project (lines 47-51)
EwpGetWikiApi ==
  /\ pc = "ewp_getWikiApi"
  /\ LET projectId == Or(args.projectId, config.defaultProject)
     IN \/ /\ calls' = Append(calls, Call("getWikiApi", None, None, None, "ok"))
           /\ IF MissingProject(projectId)
              THEN /\ Finish(EwpCaught(MsgNoProject))
                   /\ loc' = loc
              ELSE /\ pc' = "ewp_getWiki"
                   /\ loc' = [loc EXCEPT !.project = projectId]
                   /\ response' = response
        \/ \E e \in AccessFailures :
             /\ calls' = Append(calls, Call("getWikiApi", None, None, None, e))
             /\ Finish(EwpCaught(ErrorMessage(e)))
             /\ loc' = loc
  /\ UNCHANGED <<config, connection, tool, args, world>>

\* every page is reported as created
PageVerbAlwaysCreated(version) == "Created"

\* args.version ? 'Updated' : 'Created' (line 74)
PageVerb(version) == IF Falsy(version) THEN "Created" ELSE "Updated"

\* wikiApi.getWiki(projectId, wikiIdentifier) and the response (lines 54-85)
EwpGetWiki ==
  /\ pc = "ewp_getWiki"
  /\ LET call(outcome) == Call("getWiki", loc.project, None, args.wikiIdentifier,
                               outcome)
     IN \/ /\ calls' = Append(calls, call("ok"))
           /\ Finish(Returned(<<PageVerb(args.version), " wiki page ", args.path,
                                args.wikiIdentifier>>))
        \/ /\ calls' = Append(calls, call("null"))
           /\ Finish(EwpCaught(<<"Wiki ", args.wikiIdentifier,
                                 " not found in project ", loc.project>>))
        \/ \E e \in ThrowKinds :
             /\ calls' = Append(calls, call(e))
             /\ Finish(EwpCaught(ErrorMessage(e)))
  /\ UNCHANGED <<config, connection, tool, args, world, loc>>

CwInvoke ==
  /\ pc = "idle"
  /\ \E a \in [name : {"docs"}, projectId : ProjectArgs,
               repositoryId : {None, "id2"}] :
       /\ tool' = "create_wiki"
       /\ args' = a
       /\ calls' = <<>>
       /\ world' = NoWorld
       /\ loc' = LocInit
       /\ IF ~connection
          THEN Finish(CwCaught(MsgNoConnection))
          ELSE /\ pc' = "cw_getWikiApi"
               /\ response' = NoResponse
  /\ UNCHANGED <<config, connection>>

CwGetWikiApi ==
  /\ pc = "cw_getWikiApi"
  /\ LET projectId == Or(args.projectId, config.defaultProject)
     IN \/ /\ calls' = Append(calls, Call("getWikiApi", None, None, None, "ok"))
           /\ IF MissingProject(projectId)
              THEN /\ Finish(CwCaught(MsgNoProject))
                   /\ loc' = loc
              ELSE /\ pc' = "cw_createWiki"
                   /\ loc' = [loc EXCEPT !.project = projectId]
                   /\ response' = response
        \/ \E e \in AccessFailures :
             /\ calls' = Append(calls, Call("getWikiApi", None, None, None, e))
             /\ Finish(CwCaught(ErrorMessage(e)))
             /\ loc' = loc
  /\ UNCHANGED <<config, connection, tool, args, world>>

\* wikiApi.createWiki(wikiParams, projectId) and the response (lines 149-180)
CwCreateWiki ==
  /\ pc = "cw_createWiki"
  /\ LET type == IF Falsy(args.repositoryId) THEN "Project Wiki" ELSE "Code Wiki"
         call(outcome) == Call("createWiki", loc.project, args.repositoryId,
                               [name |-> args.name, projectId |-> loc.project,
                                type |-> type], outcome)
     IN \/ /\ calls' = Append(calls, call("ok"))
           /\ Finish(Returned(<<"Created wiki ", args.name, type>>))
        \/ /\ calls' = Append(calls, call("null"))
           /\ Finish(CwCaught(MsgTypeError))
        \/ \E e \in ThrowKinds :
             /\ calls' = Append(calls, call(e))
             /\ Finish(CwCaught(ErrorMessage(e)))
  /\ UNCHANGED <<config, connection, tool, args, world, loc>>

----------------------------------------------------------------------------
(* The end of an invocation: the server is ready for the next one *)

\* The response is delivered and nothing of the invocation is kept: no state
\* is shared between invocations except the configuration.
Done ==
  /\ pc = "done"
  /\ pc' = "idle"
  /\ tool' = None
  /\ args' = NoArgs
  /\ world' = NoWorld
  /\ loc' = LocInit
  /\ calls' = <<>>
  /\ response' = NoResponse
  /\ UNCHANGED <<config, connection>>

Init ==
  /\ config \in [defaultProject : DefaultProjects,
                 defaultRepository : DefaultRepositories]
  /\ connection \in BOOLEAN
  /\ tool = None
  /\ args = NoArgs
  /\ world = NoWorld
  /\ pc = "idle"
  /\ loc = LocInit
  /\ calls = <<>>
  /\ response = NoResponse

Next ==
  \/ GprInvoke
  \/ GprGetGitApi
  \/ GprDirect
  \/ GprList
  \/ GprScan
  \/ GprThreads
  \/ GrInvoke
  \/ GrGetGitApi
  \/ GrDirect
  \/ GrList
  \/ GrRefs
  \/ GprsInvoke
  \/ GprsGetGitApi
  \/ GprsGetPullRequests
  \/ LrInvoke
  \/ LrGetGitApi
  \/ LrGetRepositories
  \/ SrcInvoke
  \/ SrcFetch
  \/ CprInvoke
  \/ CprGetGitApi
  \/ CprVerify
  \/ CprCreate
  \/ GpdInvoke
  \/ GpdGetGitApi
  \/ GpdGetPullRequest
  \/ GpdGetChanges
  \/ GpInvoke
  \/ GpGetPipelinesApi
  \/ GpGetPipeline
  \/ GpListRuns
  \/ GpGetGitApi
  \/ GpGetDetails
  \/ GpGetItemContent
  \/ RpInvoke
  \/ RpGetPipelinesApi
  \/ RpGetPipeline
  \/ RpGetGitApi
  \/ RpGetDetails
  \/ RpGetItemContent
  \/ RpRun
  \/ GwiInvoke
  \/ GwiGetApi
  \/ GwiGetWorkItem
  \/ GwiParents
  \/ GwiChildren
  \/ CwiInvoke
  \/ CwiGetApi
  \/ CwiCreate
  \/ CwiGetParent
  \/ CwiLinkParent
  \/ CwiGetRelated
  \/ CwiLinkRelated
  \/ CwiSettleLate
  \/ EwpInvoke
  \/ EwpGetWikiApi
  \/ EwpGetWiki
  \/ CwInvoke
  \/ CwGetWikiApi
  \/ CwCreateWiki
  \/ Done

Spec == Init /\ [][Next]_vars

\* a step of create_work_item: one raced backend call
CwiStep ==
  \/ CwiGetApi
  \/ CwiCreate
  \/ CwiGetParent
  \/ CwiLinkParent
  \/ CwiGetRelated
  \/ CwiLinkRelated

\* the timer of the race in progress fires before the call settles
CwiTimerFires == CwiStep /\ calls'[Len(calls')].outcome = "Timeout"

\* the invocations of create_work_item alone
CwiNext ==
  \/ CwiInvoke
  \/ CwiStep
  \/ CwiSettleLate
  \/ Done

\* The server running create_work_item invocations. The backend owes no
\* answer, so no step is fair as a whole; a timer that setTimeout has armed
\* does fire.
LiveSpec == Init /\ [][CwiNext]_vars /\ WF_vars(CwiTimerFires)

----------------------------------------------------------------------------
(* Observations on an invocation *)

IsPrefix(s, t) == Len(s) <= Len(t) /\ \A i \in 1..Len(s) : s[i] = t[i]

CallIndices(op) == { i \in 1..Len(calls) : calls[i].op = op }

IssuedCount(op) == Cardinality(CallIndices(op))

\* the fallback search of get_pull_request has begun
ScanEntered == tool = "get_pull_request" /\ loc.i >= 1

\* the repositories queried by the fallback search, in the order of the queries
ScanQueried ==
  LET start == CHOOSE i \in CallIndices("getRepositories") : TRUE
      idx == { i \in CallIndices("getPullRequest") : i > start }
  IN [k \in 1..Cardinality(idx) |-> calls[start + k].repo]

\* the listed repositories the search does not skip, in listing order
ScanCandidates ==
  LET keep(r) == r.id # config.defaultRepository
      RECURSIVE ids(_)
      ids(l) == IF l = <<>> THEN <<>>
                ELSE (IF keep(Head(l)) THEN <<Head(l).id>> ELSE <<>>) \o ids(Tail(l))
  IN ids(world.repositories)

HoldsRequestedPr(repoId) ==
  IsRequestedPr(BackendGetPullRequest(world, repoId, args.pullRequestId),
                args.pullRequestId)

AccessOk ==
  \A k \in 1..Len(calls) :
    calls[k].op \in {"getGitApi", "getRepositories"} => calls[k].outcome = "ok"

\* C2: in the resolution of get_pull_request and get_repository only lookup
\* failures are swallowed: a per-candidate lookup that raises a non-lookup
\* error (permission, transport) is the last call of the invocation, which
\* ends at once with that error.
C2_NonLookupErrorsPropagate ==
  tool \in {"get_pull_request", "get_repository"} =>
    \A k \in 1..Len(calls) :
      ( /\ calls[k].op \in {"getPullRequest", "getRepository"}
        /\ calls[k].outcome \in AccessFailures ) =>
          /\ k = Len(calls)
          /\ pc = "done"
          /\ response.failed
          /\ response.text[Len(response.text)] = calls[k].outcome

\* C3: an identifier that matches no candidate ends in NotFound: a returned
\* text that names the missing entity, after every candidate has been tried.
C3_UnmatchedIsNotFound ==
  /\ ( /\ tool = "get_pull_request"
       /\ pc = "done"
       /\ IssuedCount("getPullRequest") >= 1
       /\ AccessOk
       /\ ~HoldsRequestedPr(config.defaultRepository)
       /\ \A i \in 1..Len(world.repositories) :
            ~HoldsRequestedPr(world.repositories[i].id) ) =>
        /\ response.kind = "return"
        /\ Contains(response.text, "Pull request #")
        /\ Contains(response.text, ToString(args.pullRequestId))
        /\ \/ Contains(response.text, " not found.")
           \/ Contains(response.text, " not found in project ")
        /\ \A i \in 1..Len(world.repositories) :
             \E k \in CallIndices("getPullRequest") :
               BackendRepo(world.repositories, calls[k].repo)
                 = Obj(world.repositories[i])
  /\ ( /\ tool = "get_repository"
       /\ pc = "done"
       /\ IssuedCount("getRepository") = 1
       /\ AccessOk
       /\ IsNull(BackendRepo(world.repositories, loc.repositoryId)) ) =>
        /\ response.kind = "return"
        /\ Contains(response.text, loc.repositoryId)
        /\ Contains(response.text, "' not found")
        /\ IssuedCount("getRepositories") = 1

\* C9: get_repository looks the identifier up directly first; whenever that
\* yields no repository (not-found, invalid-format, or no entity) it lists
\* the repositories and takes the one whose name equals the identifier
\* case-insensitively, or reports the identifier as not found.
C9_DirectThenByName ==
  tool = "get_repository" =>
    /\ \A k \in CallIndices("getRepositories") :
         k > 1 /\ calls[k - 1].op = "getRepository"
    /\ \A k \in CallIndices("getRepository") :
         calls[k].outcome \in LookupFailures \cup {"null"} =>
           \/ pc = "gr_list"
           \/ /\ k < Len(calls)
              /\ calls[k + 1].op = "getRepositories"
              /\ calls[k + 1].outcome = "ok" =>
                   LET r == FindByName(world.repositories, loc.repositoryId)
                   IN IF IsNull(r)
                      THEN /\ pc = "done"
                           /\ Contains(response.text, loc.repositoryId)
                           /\ Contains(response.text, "' not found")
                      ELSE loc.repository = r

\* the primary report of the tool, made of the primary entity alone
PrimaryReport ==
  CASE tool = "get_pull_request" -> FormatPullRequest(loc.pullRequest[1], <<>>)
    [] tool = "get_repository" -> FormatRepository(loc.repository[1], <<>>)
    [] tool = "get_pipeline" -> FormatPipeline(loc.pipeline[1])
    [] tool = "get_work_item" -> FormatWorkItem(loc.workItem[1], <<>>, <<>>)

\* the fetches that follow the fetch of a tool's primary entity
SecondaryFetches ==
  CASE tool = "get_pull_request" -> {"getThreads"}
    [] tool = "get_repository" -> {"getRefs"}
    [] tool = "get_pipeline" -> {"listRuns", "getItemContent"}
    [] tool = "get_work_item" -> {"getWorkItems"}
    [] OTHER -> {}

\* C4: a secondary fetch (comment threads, pipeline runs, pipeline YAML,
\* parent or child work items, repository refs) that fails with a transport
\* error does not make the invocation end in an error response: the tool
\* returns the report of the primary entity.
C4_SecondaryFailureKeepsReport ==
  \A k \in 1..Len(calls) :
    ( /\ pc = "done"
      /\ calls[k].op \in SecondaryFetches
      /\ calls[k].outcome = "Transport" ) =>
        /\ response.kind = "return"
        /\ ~response.failed
        /\ HasPrefix(response.text, PrimaryReport)

\* C5: in get_work_item with includeRelations, a failed batch fetch of the
\* parents (or of the children) is silent: the response is the success report
\* of the work item, and after a failed fetch of the parents the children are
\* still fetched.
C5_RelationBatchFailureIsSilent ==
  ( /\ tool = "get_work_item"
    /\ pc = "done"
    /\ args.includeRelations
    /\ \E k \in CallIndices("getWorkItems") : calls[k].outcome \in ThrowKinds ) =>
      /\ ~response.failed
      /\ HasPrefix(response.text, FormatWorkItem(loc.workItem[1], <<>>, <<>>))
      /\ LET children == LinkedIds(loc.workItem[1], TRUE, HierarchyForward)
         IN Len(children) > 0 =>
              \E k \in CallIndices("getWorkItems") : calls[k].extra = children

\* C6: every failure of every tool is a returned response whose text begins
\* with the literal "Error:"; nothing is thrown out of a handler.
C6_FailuresBeginWithError ==
  (pc = "done" /\ response.failed) =>
    /\ response.kind = "return"
    /\ HasPrefix(response.text, <<"Error", ":">>)

RepositoryTools ==
  {"get_repository", "get_pull_request", "get_pull_request_diff",
   "get_pull_requests", "create_pull_request"}

WikiTools == {"edit_wiki_page", "create_wiki"}

\* the repository argument of the invocation, for the tools that take one
ExplicitRepository ==
  CASE tool \in {"get_repository", "get_pull_requests"} -> args.repositoryId
    [] tool = "search_repository_code" -> args.repository
    [] OTHER -> None

\* the project argument of the invocation
ExplicitProject == IF tool \in WikiTools THEN args.projectId ELSE args.project

ExpectedRepository == Or(ExplicitRepository, config.defaultRepository)
ExpectedProject == Or(ExplicitProject, config.defaultProject)

NoRepositoryGiven ==
  tool # None /\ Falsy(ExplicitRepository) /\ Falsy(config.defaultRepository)

NoProjectGiven ==
  tool # None /\ Falsy(ExplicitProject) /\ Falsy(config.defaultProject)

\* C7: with no repository argument and no default repository, each of the
\* five repository tools ends with an error and has issued no backend call.
C7_NoRepositoryNoCalls ==
  (tool \in RepositoryTools /\ NoRepositoryGiven) =>
    /\ pc = "done"
    /\ response.failed
    /\ calls = <<>>

FailFastTools ==
  {"get_repository", "get_pull_request", "get_pull_request_diff",
   "get_pull_requests", "create_pull_request", "get_pipeline", "run_pipeline",
   "get_work_item", "create_work_item"}

SaysNoProject == Contains(response.text, MsgNoProject[1])

\* C8 as stated: with a connection, no project argument and no default
\* project, every tool ends with the no-project message before any backend
\* operation or API accessor.
C8_NoProjectFailsFast ==
  (connection /\ NoProjectGiven) =>
    /\ pc = "done"
    /\ response.failed
    /\ SaysNoProject
    /\ calls = <<>>

\* C8: with a connection, no project argument and no default project, the
\* nine tools that check the project first end with the no-project message
\* and no call at all; edit_wiki_page and create_wiki obtain the wiki API
\* accessor first, then throw the message without any entity operation;
\* list_repositories and search_repository_code do not require a project and
\* never report it missing: their requests carry no project.
C8_NoProjectAmended ==
  (connection /\ NoProjectGiven) =>
    /\ tool \in FailFastTools =>
         /\ pc = "done"
         /\ response.kind = "return"
         /\ response.failed
         /\ SaysNoProject
         /\ calls = <<>>
    /\ tool \in WikiTools =>
         /\ Len(calls) <= 1
         /\ \A k \in 1..Len(calls) : calls[k].op = "getWikiApi"
         /\ pc = "done" =>
              /\ Len(calls) = 1
              /\ response.kind = "throw"
              /\ calls[1].outcome = "ok" => SaysNoProject
    /\ tool \in {"list_repositories", "search_repository_code"} =>
         /\ ~SaysNoProject
         /\ \A k \in 1..Len(calls) : Falsy(calls[k].project)
         /\ \A k \in CallIndices("fetch") : calls[k].extra.Project = None
         /\ (tool = "list_repositories" /\ pc = "done") =>
              /\ IssuedCount("getGitApi") = 1
              /\ (IssuedCount("getRepositories") = 1
                  /\ calls[Len(calls)].outcome \in {"ok", "null"}) => ~response.failed

\* get_pipeline was invoked with a connection and no project, and has ended
\* with the no-project message and no call
C8_Witness ==
  /\ tool = "get_pipeline"
  /\ connection
  /\ NoProjectGiven
  /\ pc = "done"
  /\ response.failed
  /\ SaysNoProject
  /\ calls = <<>>

\* C10: every backend call of an invocation carries, for the project and for
\* the repository of get_repository, get_pull_requests and
\* search_repository_code, the argument when one is given and else the
\* configured default, and the same value in every place of the request.
C10_ExplicitThenDefault ==
  tool # None =>
    \A k \in 1..Len(calls) :
      /\ Falsy(calls[k].project) \/ calls[k].project = ExpectedProject
      /\ calls[k].op = "fetch" =>
           /\ ~Falsy(ExpectedProject) => calls[k].extra.Project = ExpectedProject
           /\ ~Falsy(ExpectedRepository) => calls[k].repo = ExpectedRepository
      /\ (tool = "get_repository" /\ calls[k].op = "getRepository") =>
           calls[k].repo = ExpectedRepository
      /\ (calls[k].op = "getPullRequests" /\ ~Falsy(ExpectedRepository)) =>
           /\ calls[k].repo = ExpectedRepository
           /\ calls[k].extra.repositoryId = ExpectedRepository

----------------------------------------------------------------------------
(* The parameter schema of a pipeline's YAML text *)

\* the text the invocation has fetched and handed to the extraction
Extracted == ~IsNull(loc.yamlContent)

\* a "- name:" list item
IsItemLine(line) == line \in {"  - name: env", "  - name: region"}

\* a key that is not indented
IsTopLevelKey(line) == line \in {"parameters:", "steps:"}

\* the line of the first "parameters:" key, 0 when the text has none
KeyLine(yaml) ==
  LET keys == { i \in 1..Len(yaml) : yaml[i] = "parameters:" }
  IN IF keys = {} THEN 0 ELSE CHOOSE i \in keys : \A j \in keys : i <= j

\* the last line of the parameters block: the line before the next top-level
\* key, or the last line of the text
BlockEnd(yaml) ==
  LET next == { i \in (KeyLine(yaml) + 1)..Len(yaml) : IsTopLevelKey(yaml[i]) }
  IN IF next = {} THEN Len(yaml)
     ELSE (CHOOSE i \in next : \A j \in next : i <= j) - 1

\* the last line of the text span of the item that begins on line i
SpanEnd(yaml, i) ==
  LET next == { j \in (i + 1)..BlockEnd(yaml) : IsItemLine(yaml[j]) }
  IN IF next = {} THEN BlockEnd(yaml)
     ELSE (CHOOSE j \in next : \A k \in next : j <= k) - 1

\* the entry of the item that begins on line i, its fields read from its span
ItemEntry(yaml, i) ==
  LET name == ItemName(TrimStart(yaml[i]))
  IN [name |-> name, type |-> "string",
      default |-> IF \E j \in (i + 1)..SpanEnd(yaml, i) : yaml[j] = "    default: prod"
                  THEN "prod" ELSE "",
      displayName |-> name]

\* the entries of the items of the block from line k on, in textual order
RECURSIVE ItemsFrom(_, _)
ItemsFrom(yaml, k) ==
  IF k > BlockEnd(yaml) THEN <<>>
  ELSE (IF IsItemLine(yaml[k]) THEN <<ItemEntry(yaml, k)>> ELSE <<>>)
       \o ItemsFrom(yaml, k + 1)

\* one entry per list item of the parameters block
BlockItems(yaml) ==
  IF KeyLine(yaml) = 0 THEN <<>> ELSE ItemsFrom(yaml, KeyLine(yaml) + 1)

Names(entries) == [i \in 1..Len(entries) |-> entries[i].name]

\* C11: every entry of the extracted schema carries the type, default and
\* displayName found in the text span of its list item, and "string", "" and
\* the name only for the fields the span does not hold: the item
\* "- name: env" followed by the line "default: prod" gives the entry
\* {env, string, prod, env}.
C11_ItemFieldsCaptured ==
  Extracted =>
    \A i \in 1..Len(loc.yamlParameters) :
      \E j \in 1..Len(BlockItems(loc.yamlContent[1])) :
        BlockItems(loc.yamlContent[1])[j] = loc.yamlParameters[i]

\* C12: the extracted schema holds exactly one entry per "- name:" item of
\* the block that runs from the "parameters:" key to the next top-level key
\* or the end of the text, in textual order.
C12_OneEntryPerItem ==
  Extracted =>
    Names(loc.yamlParameters) = Names(BlockItems(loc.yamlContent[1]))

\* an extracted parameter whose captured default is empty and that the
\* parameters argument does not supply
UnsuppliedRequired ==
  \E i \in 1..Len(loc.yamlParameters) :
    /\ loc.yamlParameters[i].default = ""
    /\ ~IsProvided(args.parameters, loc.yamlParameters[i].name)

\* C13: when run_pipeline has extracted a parameter with an empty default
\* that the parameters argument does not supply, the invocation ends with
\* "Error: Missing required parameters: ..." and never calls runPipeline.
C13_MissingRequiredBlocksRun ==
  (tool = "run_pipeline" /\ pc = "done" /\ UnsuppliedRequired) =>
    /\ HasPrefix(response.text, <<"Error", ":", "Missing required parameters: ">>)
    /\ IssuedCount("runPipeline") = 0

\* the text is empty, holds no "parameters:" key, or holds the key with
\* nothing after it
NoParametersText(yaml) ==
  \/ KeyLine(yaml) = 0
  \/ \A i \in (KeyLine(yaml) + 1)..Len(yaml) : yaml[i] = ""

\* C14: on a text that is empty, has no "parameters:" key, or has the key
\* followed by nothing, the schema is empty and the extraction raises
\* nothing: get_pipeline returns its report without a "Pipeline Parameters"
\* section, and run_pipeline, left with an empty schema after the fetch of
\* the file, goes on to the run with no validation error.
C14_NoParametersEmptySchema ==
  /\ (Extracted /\ NoParametersText(loc.yamlContent[1])) =>
       /\ loc.yamlParameters = <<>>
       /\ (tool = "get_pipeline") =>
            /\ pc = "done"
            /\ response.kind = "return"
            /\ ~response.failed
            /\ ~Contains(response.text, "## Pipeline Parameters")
            /\ Contains(response.text, "## Pipeline YAML")
       /\ (tool = "run_pipeline") => pc = "rp_run"
  /\ ( /\ tool = "run_pipeline"
       /\ pc = "done"
       /\ \E k \in CallIndices("getItemContent") : calls[k].outcome = "ok"
       /\ loc.yamlParameters = <<>> ) =>
         /\ IssuedCount("runPipeline") = 1
         /\ ~Contains(response.text, "Missing required parameters: ")

\* get_pipeline has returned its report for a text whose "parameters:" key
\* is followed by nothing: the YAML is shown and no parameter is listed
C14_Witness ==
  /\ tool = "get_pipeline"
  /\ pc = "done"
  /\ Extracted
  /\ loc.yamlContent[1] = <<"steps:", "parameters:", "">>
  /\ loc.yamlParameters = <<>>
  /\ ~response.failed
  /\ Contains(response.text, "## Pipeline YAML")
  /\ ~Contains(response.text, "## Pipeline Parameters")

\* the configuration of the pipeline the invocation works on is tagged YAML
YamlConfigured ==
  /\ "pipeline" \in DOMAIN world
  /\ ~IsNull(world.pipeline)
  /\ ~IsNull(world.pipeline[1].configuration)
  /\ world.pipeline[1].configuration[1].type = "yaml"

\* C15: get_pipeline and run_pipeline fetch the file content and extract the
\* schema only for a pipeline whose configuration type is YAML; for a
\* pipeline with no configuration or another type there is no getItemContent
\* call and the schema stays empty.
C15_OnlyYamlIsExtracted ==
  (tool \in {"get_pipeline", "run_pipeline"} /\ ~YamlConfigured) =>
    /\ IssuedCount("getItemContent") = 0
    /\ ~Extracted
    /\ loc.yamlParameters = <<>>

\* run_pipeline has run a pipeline of another configuration type, which has
\* a path and a repository, without fetching any file content
C15_Witness ==
  /\ tool = "run_pipeline"
  /\ pc = "done"
  /\ "pipeline" \in DOMAIN world
  /\ ~IsNull(world.pipeline)
  /\ ~IsNull(world.pipeline[1].configuration)
  /\ world.pipeline[1].configuration[1].type = "designerJson"
  /\ ~Falsy(world.pipeline[1].configuration[1].path)
  /\ \E k \in CallIndices("runPipeline") : calls[k].outcome = "ok"
  /\ IssuedCount("getItemContent") = 0

----------------------------------------------------------------------------
(* The report of get_pull_request_diff *)

\* the invocation has fetched a non-empty list of change entries and ended
DiffReported ==
  /\ tool = "get_pull_request_diff"
  /\ pc = "done"
  /\ Len(loc.changeEntries) > 0

\* the places of the token in the text
Places(text, tok) == { i \in 1..Len(text) : text[i] = tok }

\* the places where the rows of the listing begin, in the order of the text
RowStarts(text) ==
  SelectSeq([i \in 1..Len(text) |-> i], LAMBDA i : text[i] = "|")

\* the number the text gives after the label
CountAfter(text, label) == text[(CHOOSE i \in Places(text, label) : TRUE) + 1]

OfType(changes, type) == SelectSeq(changes, LAMBDA c : c.changeType = type)

HowMany(changes, type) ==
  Cardinality({ i \in 1..Len(changes) : changes[i].changeType = type })

\* C16: the change entries are split by changeType into the groups Add,
\* Edit, Delete and Rename, each holding the entries of its type in their
\* backend order; the summary gives the number of entries of each type, and
\* the rows of the listing follow the backend order.
C16_StablePartition ==
  DiffReported =>
    LET changes == loc.changeEntries
        text == response.text
        rows == RowStarts(text)
    IN /\ loc.groups.additions = OfType(changes, Add)
       /\ loc.groups.edits = OfType(changes, Edit)
       /\ loc.groups.deletes = OfType(changes, Delete)
       /\ loc.groups.renames = OfType(changes, Rename)
       /\ CountAfter(text, "- Added: ") = ToString(HowMany(changes, Add))
       /\ CountAfter(text, "- Modified: ") = ToString(HowMany(changes, Edit))
       /\ CountAfter(text, "- Deleted: ") = ToString(HowMany(changes, Delete))
       /\ CountAfter(text, "- Renamed: ") = ToString(HowMany(changes, Rename))
       /\ Len(rows) = Len(changes)
       /\ \A k \in 1..Len(changes) :
            /\ text[rows[k] + 1] = FormatChangeType(changes[k].changeType)
            /\ text[rows[k] + 2] = ChangePath(changes[k])

\* the report of the entries Add /a, Edit, Delete, Add /c: Added 2,
\* Modified 1, Deleted 1, Renamed 0, the two additions in their order
C16_Witness ==
  /\ DiffReported
  /\ [k \in 1..Len(loc.changeEntries) |-> loc.changeEntries[k].changeType]
       = <<Add, Edit, Delete, Add>>
  /\ ChangePath(loc.changeEntries[1]) = "/a"
  /\ ChangePath(loc.changeEntries[4]) = "/c"
  /\ [k \in 1..2 |-> ChangePath(loc.groups.additions[k])] = <<"/a", "/c">>
  /\ CountAfter(response.text, "- Added: ") = "2"
  /\ CountAfter(response.text, "- Modified: ") = "1"
  /\ CountAfter(response.text, "- Deleted: ") = "1"
  /\ CountAfter(response.text, "- Renamed: ") = "0"

\* the web URL of the pull request's repository, and the path of the k-th
\* change entry, read from what the backend returned
HasWebUrl ==
  /\ ~IsNull(loc.pullRequest[1].repository)
  /\ loc.pullRequest[1].repository[1].webUrl \notin {None, ""}

HasPath(change) ==
  /\ ~IsNull(change.item)
  /\ change.item[1].path \notin {None, ""}

\* C17: the link of a change entry is non-empty exactly when the repository
\* web URL and the entry's path are both present; without either the link
\* field is empty, and the invocation returns the diff report, not an error.
C17_LinkIffUrlAndPath ==
  DiffReported =>
    /\ response.kind = "return"
    /\ ~response.failed
    /\ HasPrefix(response.text, <<"# Pull Request #">>)
    /\ \A k \in 1..Len(loc.changeEntries) :
         (response.text[RowStarts(response.text)[k] + 3] # "")
           <=> (HasWebUrl /\ HasPath(loc.changeEntries[k]))

\* a returned report with one linked entry and one entry without item, whose
\* link field is empty
C17_Witness ==
  /\ DiffReported
  /\ ~response.failed
  /\ HasWebUrl
  /\ \E k \in 1..Len(loc.changeEntries) :
       /\ HasPath(loc.changeEntries[k])
       /\ response.text[RowStarts(response.text)[k] + 3] = "[View]("
  /\ \E k \in 1..Len(loc.changeEntries) :
       /\ IsNull(loc.changeEntries[k].item)
       /\ response.text[RowStarts(response.text)[k] + 3] = ""

----------------------------------------------------------------------------
(* The steps of create_work_item *)

LinkingSteps == {"getWorkItem", "updateWorkItem"}

\* create_work_item has ended after a successful createWorkItem call
CreatedAndEnded ==
  /\ tool = "create_work_item"
  /\ pc = "done"
  /\ \E k \in CallIndices("createWorkItem") : calls[k].outcome = "ok"

\* a linking step of the invocation failed or timed out
LinkingFailed ==
  \E k \in 1..Len(calls) :
    calls[k].op \in LinkingSteps /\ calls[k].outcome \in RaceFailures

\* the linking step on the work item of that ID was dispatched
Dispatched(op, id) == \E k \in CallIndices(op) : calls[k].extra.id = id

\* C18: once createWorkItem has succeeded, a failure or a timeout of a later
\* linking step (the fetch of the parent or of the related work item, or the
\* update that adds the link) is silent: the invocation returns the
\* "Work Item Created" report of the created work item, and a failed parent
\* step does not keep the related step from being attempted.
C18_LinkingFailureIsSilent ==
  (CreatedAndEnded /\ LinkingFailed) =>
    /\ response.kind = "return"
    /\ ~response.failed
    /\ HasPrefix(response.text,
                 <<"# Work Item Created", "**ID**: ", ToString(loc.workItem[1].id)>>)
    /\ args.relatedWorkItemId # 0 =>
         Dispatched("getWorkItem", args.relatedWorkItemId)

\* the fetch of the parent timed out, the related work item was fetched and
\* its link update failed, and the created work item is reported
C18_Witness ==
  /\ CreatedAndEnded
  /\ args.parentId # 0
  /\ args.relatedWorkItemId # 0
  /\ \E k \in CallIndices("getWorkItem") :
       calls[k].extra.id = args.parentId /\ calls[k].outcome = "Timeout"
  /\ \E k \in CallIndices("getWorkItem") :
       calls[k].extra.id = args.relatedWorkItemId /\ calls[k].outcome = "ok"
  /\ \E k \in CallIndices("updateWorkItem") : calls[k].outcome = "Transport"
  /\ ~response.failed
  /\ HasPrefix(response.text, <<"# Work Item Created">>)

\* the primary steps and the message of their timeout
PrimaryTimeoutMessage(op) ==
  IF op = "getWorkItemTrackingApi" THEN <<"Timeout getting Work Item Tracking API">>
  ELSE <<"Timeout creating work item">>

\* C19: a timeout of createWorkItem, or of obtaining the work-item API, ends
\* create_work_item with an error response that carries the timeout message,
\* which is not the message of a lookup failure; no linking step is
\* dispatched and no "Work Item Created" report is produced.
C19_PrimaryTimeoutIsFatal ==
  \A k \in 1..Len(calls) :
    ( /\ tool = "create_work_item"
      /\ calls[k].op \in {"getWorkItemTrackingApi", "createWorkItem"}
      /\ calls[k].outcome = "Timeout" ) =>
        /\ pc = "done"
        /\ response.kind = "return"
        /\ response.failed
        /\ response.text = <<"Error", "creating", "work", "item", ":">>
                             \o PrimaryTimeoutMessage(calls[k].op)
        /\ response.text # CwiCaught(ErrorMessage("NotFound")).text
        /\ ~Contains(response.text, "# Work Item Created")
        /\ \A j \in 1..Len(calls) : calls[j].op \notin LinkingSteps

\* createWorkItem timed out in an invocation that asked for a parent and a
\* related link
C19_Witness ==
  /\ tool = "create_work_item"
  /\ pc = "done"
  /\ args.parentId # 0
  /\ args.relatedWorkItemId # 0
  /\ \E k \in CallIndices("createWorkItem") : calls[k].outcome = "Timeout"
  /\ response.failed
  /\ Contains(response.text, "Timeout creating work item")

----------------------------------------------------------------------------
(* The Comments section of get_pull_request *)

\* get_pull_request has ended with the threads the backend returned
ThreadsReported ==
  /\ tool = "get_pull_request"
  /\ pc = "done"
  /\ \E k \in CallIndices("getThreads") : calls[k].outcome = "ok"

\* the thread carries the mark the handler takes for a system message
\* (the type of its first comment, line 259)
SystemGenerated(thread) ==
  Len(thread.comments) > 0 /\ thread.comments[1].commentType = 1

\* the threads to render: at least one comment, and not system-generated
Shown(threads) ==
  SelectSeq(threads, LAMBDA t : Len(t.comments) > 0 /\ ~SystemGenerated(t))

\* the number of comments with a content in the threads
RECURSIVE ContentCount(_)
ContentCount(threads) ==
  IF threads = <<>> THEN 0
  ELSE Cardinality({ i \in 1..Len(Head(threads).comments) :
                       Head(threads).comments[i].content # "" })
       + ContentCount(Tail(threads))

\* C20: in the Comments section of get_pull_request the comments with an
\* empty content and the system-generated threads are left out, every other
\* thread with at least one comment is rendered, and the section is there
\* only when at least one thread is rendered.
C20_CommentsSectionFiltered ==
  ThreadsReported =>
    /\ Cardinality(Places(response.text, "### General")) = Len(Shown(loc.threads))
    /\ Cardinality(Places(response.text, "**author**"))
         = ContentCount(Shown(loc.threads))
    /\ Contains(response.text, "## Comments") <=> Len(Shown(loc.threads)) > 0

----------------------------------------------------------------------------
(* The reviewers and workItemIds arguments of create_pull_request *)

\* create_pull_request has ended with the report of the created pull request
PrCreated ==
  /\ tool = "create_pull_request"
  /\ pc = "done"
  /\ response.kind = "return"
  /\ ~response.failed
  /\ \E k \in CallIndices("createPullRequest") : calls[k].outcome = "ok"

\* a call of that operation was issued after the createPullRequest call
IssuedAfterCreate(op) ==
  \E k \in CallIndices("createPullRequest") :
    \E j \in CallIndices(op) : j > k

\* C21: when create_pull_request has created the pull request and returns
\* its success report, a non-empty workItemIds argument has led to a backend
\* call that links the work items to the pull request, and a non-empty
\* reviewers argument to a backend call that adds the reviewers.
C21_ReviewersAndWorkItemsApplied ==
  PrCreated =>
    /\ args.workItemIds # <<>> => IssuedAfterCreate("createPullRequestWorkItemRefs")
    /\ args.reviewers # <<>> => IssuedAfterCreate("createPullRequestReviewers")

----------------------------------------------------------------------------
(* Retries *)

\* the backend entity a repository identifier of a call denotes: the listed
\* repository of that ID or name, or the identifier itself
TargetRepository(ident) ==
  LET repo == BackendRepo(world.repositories, ident)
  IN IF ident = None \/ IsNull(repo) THEN ident ELSE repo[1].id

\* two calls of the invocation are the same operation on the same entity
SameTarget(j, k) ==
  /\ calls[j].op = calls[k].op
  /\ calls[j].project = calls[k].project
  /\ calls[j].extra = calls[k].extra
  /\ TargetRepository(calls[j].repo) = TargetRepository(calls[k].repo)

\* C22: within one invocation no backend operation is issued twice on the
\* same entity: one that failed is not re-issued, and one that succeeded is
\* not issued a second time with the same arguments.
C22_NoCallIssuedTwice ==
  \A j, k \in 1..Len(calls) : j < k => ~SameTarget(j, k)

----------------------------------------------------------------------------
(* The default repository in the fallback search of get_pull_request *)

\* the getPullRequest calls of the invocation that query the configured
\* default repository, whichever identifier the request carried
DefaultRepositoryQueries ==
  { k \in CallIndices("getPullRequest") :
      TargetRepository(calls[k].repo) = TargetRepository(config.defaultRepository) }

\* C23: in get_pull_request the default repository, set by ID or by name, is
\* queried for the pull request at most once per invocation: the fallback
\* search skips it.
C23_DefaultRepositorySkipped ==
  tool = "get_pull_request" => Cardinality(DefaultRepositoryQueries) <= 1

----------------------------------------------------------------------------
(* The order of the steps of get_pull_request *)

\* the pull request get_pull_request resolved carries a repository ID
ResolvedWithRepository ==
  /\ ~IsNull(loc.pullRequest)
  /\ ~IsNull(loc.pullRequest[1].repository)
  /\ ~Falsy(loc.pullRequest[1].repository[1].id)

\* C24: in get_pull_request the thread fetch is dispatched at most once,
\* directly after the getPullRequest call that resolved the pull request, and
\* on the repository that call found it in, which is the repository the
\* pull request names; an invocation that resolved a pull request without a
\* repository ID ends with its report and no thread fetch.
C24_ThreadsAfterResolution ==
  tool = "get_pull_request" =>
    /\ IssuedCount("getThreads") <= 1
    /\ \A k \in CallIndices("getThreads") :
         /\ k > 1
         /\ calls[k - 1].op = "getPullRequest"
         /\ calls[k - 1].outcome = "ok"
         /\ calls[k].repo = TargetRepository(calls[k - 1].repo)
         /\ ResolvedWithRepository
         /\ calls[k].repo = loc.pullRequest[1].repository[1].id
         /\ calls[k].extra = args.pullRequestId
         /\ calls[k].project = loc.project
    /\ (pc = "done" /\ ~IsNull(loc.pullRequest)) =>
         /\ ResolvedWithRepository <=> IssuedCount("getThreads") = 1
         /\ ~response.failed
         /\ HasPrefix(response.text, FormatPullRequest(loc.pullRequest[1], <<>>))

\* the direct lookup on the default repository failed, the fallback search
\* found the pull request in another repository, and the threads were
\* fetched from that repository
C24_Witness ==
  /\ tool = "get_pull_request"
  /\ pc = "done"
  /\ config.defaultRepository = "id1"
  /\ \E k \in CallIndices("getThreads") :
       /\ calls[k].repo = "id2"
       /\ calls[k - 1].op = "getPullRequest"
       /\ calls[k - 1].repo = "id2"
       /\ calls[k].outcome = "ok"
  /\ \E k \in CallIndices("getPullRequest") :
       calls[k].repo = "id1" /\ calls[k].outcome = "NotFound"
  /\ ~response.failed

\* a pull request without a repository ID was resolved and reported with no
\* thread fetch
C24_WitnessNoRepository ==
  /\ tool = "get_pull_request"
  /\ pc = "done"
  /\ ~IsNull(loc.pullRequest)
  /\ ~ResolvedWithRepository
  /\ IssuedCount("getThreads") = 0

----------------------------------------------------------------------------
(* Termination of create_work_item *)

\* a create_work_item invocation is waiting on a backend call
CwiWaiting == tool = "create_work_item" /\ pc \notin {"idle", "done"}

\* the invocation has returned its response
CwiResponded ==
  tool = "create_work_item" /\ pc = "done" /\ response.kind = "return"

\* C25: every create_work_item invocation eventually returns, whatever the
\* backend does with its calls, and returns once: the response is set by the
\* step that ends the invocation and is not touched again until the next
\* invocation starts.
C25_CreateWorkItemReturns ==
  /\ CwiWaiting ~> CwiResponded
  /\ [][tool = "create_work_item" =>
          /\ (response' # response /\ pc' # "idle") =>
               (pc # "done" /\ pc' = "done" /\ response = NoResponse)
          /\ pc = "done" => pc' \in {"done", "idle"}]_vars

\* the invocation returned after the timer of every one of its linking
\* calls had fired
C25_Witness ==
  /\ CwiResponded
  /\ Len(calls) = 4
  /\ \A k \in 3..4 : calls[k].outcome = "Timeout"
  /\ world.pending = {3, 4}

----------------------------------------------------------------------------
(* The races of create_work_item *)

\* the ways a raced call can decide its step
RaceOutcomes == {"ok", "null"} \cup RaceFailures

\* the step logs one more call
CallDispatched == Len(calls') = Len(calls) + 1

\* a call in flight settles
LateSettlement ==
  world'.pending # world.pending /\ world'.pending \subseteq world.pending

\* C26: in create_work_item every raced call decides its step by exactly one
\* of completion, error and timeout; a call whose timer fired first stays in
\* flight, no step of the handler cancels it, and when it settles later the
\* response, the position of the handler, its locals and the log of calls
\* are left as they were.
C26_NoCancellation ==
  [][(tool = "create_work_item" /\ pc' # "idle") =>
       /\ CallDispatched =>
            LET k == Len(calls')
            IN /\ calls'[k].outcome \in RaceOutcomes
               /\ k \in world'.pending <=> calls'[k].outcome = "Timeout"
               /\ world'.pending \ {k} = world.pending
       /\ LateSettlement =>
            /\ UNCHANGED <<pc, loc, calls, response, args>>
            /\ \A k \in world.pending : calls[k].outcome = "Timeout"
       /\ ~CallDispatched => world'.pending \subseteq world.pending]_vars

\* createWorkItem lost its race, the invocation ended with the timeout
\* error, and the call has settled since
C26_Witness ==
  /\ tool = "create_work_item"
  /\ pc = "done"
  /\ Len(calls) = 2
  /\ calls[2].op = "createWorkItem"
  /\ calls[2].outcome = "Timeout"
  /\ world.pending = {}
  /\ response.failed
  /\ Contains(response.text, "Timeout creating work item")

----------------------------------------------------------------------------
(* The linked sections of the create_work_item report *)

\* the update that links the new work item to that work item completed
LinkAdded(target) ==
  \E k \in CallIndices("updateWorkItem") :
    calls[k].extra.target = target /\ calls[k].outcome \in {"ok", "null"}

\* C27: the report of create_work_item has a "Parent Work Item" section only
\* if the update that adds the parent link completed in the invocation, and
\* a "Related Work Item" section only if the update that adds the related
\* link completed.
C27_SectionOnlyIfLinked ==
  (CreatedAndEnded /\ ~response.failed) =>
    /\ Contains(response.text, "## Parent Work Item") => LinkAdded(args.parentId)
    /\ Contains(response.text, "## Related Work Item") =>
         LinkAdded(args.relatedWorkItemId)

----------------------------------------------------------------------------
(* The run of run_pipeline *)

\* the steps of the block that reads the parameters of the YAML file
YamlSteps == {"getGitApi", "getItemContent"}

\* the first getPipeline call of the invocation returned a pipeline
PipelineVerified ==
  /\ CallIndices("getPipeline") # {}
  /\ LET first == CHOOSE k \in CallIndices("getPipeline") :
                    \A j \in CallIndices("getPipeline") : k <= j
     IN calls[first].outcome = "ok"

\* a step of the YAML block failed: a YAML step threw, or the second
\* getPipeline did
YamlBlockFailed ==
  \/ \E k \in 1..Len(calls) :
       calls[k].op \in YamlSteps /\ calls[k].outcome \in ThrowKinds
  \/ \E j, k \in CallIndices("getPipeline") :
       j < k /\ calls[k].outcome \in ThrowKinds

\* C28: run_pipeline dispatches runPipeline at most once, as the last call
\* of the invocation, and only after the first getPipeline returned a
\* pipeline; an invocation whose first getPipeline failed or returned nothing
\* ends without a run, and one in which a step of the YAML block failed
\* still dispatches the run.
C28_RunAfterVerifiedPipeline ==
  tool = "run_pipeline" =>
    /\ IssuedCount("runPipeline") <= 1
    /\ \A k \in CallIndices("runPipeline") : k = Len(calls) /\ PipelineVerified
    /\ (pc = "done" /\ CallIndices("getPipeline") # {} /\ ~PipelineVerified) =>
         /\ IssuedCount("runPipeline") = 0
         /\ IssuedCount("getPipeline") = 1
         /\ response.kind = "return"
         /\ \/ response.text = MsgPipelineNotFound(args.pipelineId)
            \/ response.failed
    /\ (pc = "done" /\ PipelineVerified /\ YamlBlockFailed) =>
         /\ IssuedCount("runPipeline") = 1
         /\ ~Contains(response.text, "Missing required parameters: ")
         /\ calls[Len(calls)].outcome = "ok" => ~response.failed

\* reading the YAML file failed and the run was started
C28_Witness ==
  /\ tool = "run_pipeline"
  /\ pc = "done"
  /\ \E k \in CallIndices("getItemContent") : calls[k].outcome = "Transport"
  /\ \E k \in CallIndices("runPipeline") : calls[k].outcome = "ok"
  /\ ~response.failed

----------------------------------------------------------------------------
(* The target of create_pull_request *)

\* the verification of the repository did not yield a repository
VerificationFailed ==
  \E k \in CallIndices("getRepository") : calls[k].outcome # "ok"

\* C29: create_pull_request dispatches createPullRequest at most once, on
\* the configured default repository and in the project of the verification,
\* directly after a getRepository call on that repository returned a
\* repository; an invocation whose verification threw or returned nothing
\* creates no pull request and ends with an error response.
C29_CreateAfterVerification ==
  tool = "create_pull_request" =>
    /\ IssuedCount("createPullRequest") <= 1
    /\ \A k \in CallIndices("createPullRequest") :
         /\ calls[k].repo = config.defaultRepository
         /\ k > 1
         /\ calls[k - 1].op = "getRepository"
         /\ calls[k - 1].outcome = "ok"
         /\ calls[k - 1].repo = config.defaultRepository
         /\ calls[k - 1].project = calls[k].project
         /\ ~IsNull(BackendRepo(world.repositories, config.defaultRepository))
    /\ VerificationFailed =>
         /\ IssuedCount("createPullRequest") = 0
         /\ pc = "done"
         /\ response.kind = "return"
         /\ response.failed
         /\ HasPrefix(response.text,
                      <<"Error", "creating", "pull", "request", ":",
                        "Error verifying repository '">>)

\* the default repository is not in the project: the verification returned
\* nothing and the invocation ended with the error, without a create call
C29_Witness ==
  /\ tool = "create_pull_request"
  /\ pc = "done"
  /\ config.defaultRepository = "ghost"
  /\ \E k \in CallIndices("getRepository") : calls[k].outcome = "null"
  /\ IssuedCount("createPullRequest") = 0
  /\ response.failed

----------------------------------------------------------------------------
(* The effect of edit_wiki_page *)

\* the operations that read from the backend or obtain a client of it
WikiReads == {"getWikiApi", "getWiki"}

\* getWiki returned the wiki
WikiFound == \E k \in CallIndices("getWiki") : calls[k].outcome = "ok"

====
